---- MODULE Spec2Model ----
(***************************************************************************)
(* Productivity scoring and weekly pattern detection of LukeOS             *)
(* (src/src/services/scoring.ts), the weekly metrics route, the Gemini     *)
(* service, the in-memory conversation store and handleBrainRequest with   *)
(* its Supabase storage.                                                   *)
(*                                                                         *)
(* Representation                                                          *)
(*   - an optional field of DailyMetrics is <<>> when absent and <<v>>     *)
(*     when present;                                                       *)
(*   - JavaScript numbers that are fractions are kept exact as pairs       *)
(*     <<numerator, denominator>> with a positive denominator;             *)
(*   - sleep_hours is held in units of 1/SleepScale hour.                  *)
(***************************************************************************)
EXTENDS Integers, Sequences, FiniteSets, TLC

VARIABLES
    metrics,        \* the DailyMetrics record handed to calculateProductivityScore
    score,          \* <<>> before the first call, then <<value returned>>
    edits,          \* number of fields the caller changed since the record was loaded
    gradedScore,    \* <<>> or <<the score handed to getScoreGrade / getScoreDescription>>
    grade,          \* value returned by getScoreGrade
    description,    \* value returned by getScoreDescription
    weeklyMetrics,  \* the DailyMetrics[] being assembled for detectPatterns
    patterns,       \* <<>> or <<the PatternAnalysis returned by detectPatterns>>
    aggregate,      \* <<>> or <<the totals returned by aggregateWeeklyMetrics>>
    timezoneOffset, \* getTimezoneOffset() of the server process, in minutes
    wallClock,      \* 0, or the day number of `new Date()` while a weekly request is served
    routeMetrics,   \* the exercise fields of the dayMetrics the weekly route has built
    stravaFetched,  \* for each of them, the start days of the activities fetched for its date
    GEMINI_MODEL,   \* the module variable GEMINI_MODEL of the Gemini service
    gemini,         \* the call of analyzeWithGemini in progress or last finished
    memoryStore,    \* the Map memoryStore of the in-memory conversation store
    savedTurns,     \* history: for each user, every turn ever handed to saveConversation
    recentMessages, \* <<>> or <<the last call of getRecentMessages and what it returned>>
    supabase,       \* whether initSupabase() has created the client
    user_profile,   \* the telegram_id values that have a row in user_profile
    conversations,  \* the rows of the table conversations, in insertion order
    chatTurns       \* the chat requests answered so far, with their background work

vars == <<metrics, score, edits, gradedScore, grade, description,
          weeklyMetrics, patterns, aggregate, timezoneOffset,
          wallClock, routeMetrics, stravaFetched, GEMINI_MODEL, gemini,
          memoryStore, savedTurns, recentMessages,
          supabase, user_profile, conversations, chatTurns>>

scoreVars == <<metrics, score, edits>>
gradeVars == <<gradedScore, grade, description>>
weekVars  == <<weeklyMetrics, patterns, aggregate>>
envVars   == <<timezoneOffset>>
routeVars == <<wallClock, routeMetrics, stravaFetched>>
geminiVars == <<GEMINI_MODEL, gemini>>
memoryVars == <<memoryStore, savedTurns, recentMessages>>
chatVars   == <<supabase, user_profile, conversations, chatTurns>>

\* the state outside the scoring module
serviceVars == <<routeVars, geminiVars, memoryVars, chatVars>>

-----------------------------------------------------------------------------
(* Bounds of the model *)

\* number of single-field changes a caller makes to a loaded record
MaxEdits == 2

\* number of days in the period handed to detectPatterns
MaxDays == 6

\* number of calls of analyzeWithGemini
MaxAnalyses == 2

\* number of turns saved for one user of the in-memory store
MaxSaves == 31

\* number of chat requests
MaxRequests == 2

\* the call record before the first call of analyzeWithGemini
IdleCall == [calls |-> 0, status |-> "idle", requests |-> <<>>, responses |-> <<>>,
             result |-> <<>>]

\* the zones the server may run in: UTC (and, alike, every zone east of
\* Greenwich) and one zone west of Greenwich, UTC-5
TimezoneOffsets == {0, 300}

-----------------------------------------------------------------------------
(* DailyMetrics *)

\* sleep_hours is a real number of hours; the model counts tenths of an hour
SleepScale == 10

NumericFields ==
    {"github_commits", "github_prs", "github_coding_minutes",
     "exercise_minutes", "workout_streak", "screen_time_minutes",
     "productive_app_minutes", "meetings_minutes", "focus_time_minutes",
     "sleep_hours", "steps", "productivity_score"}

BooleanFields == {"exercised_today", "deep_work_session"}

\* the record with only `date` present
EmptyMetrics(d) ==
    [date |-> d,
     github_commits |-> <<>>, github_prs |-> <<>>, github_coding_minutes |-> <<>>,
     exercise_minutes |-> <<>>, workout_streak |-> <<>>, exercised_today |-> <<>>,
     screen_time_minutes |-> <<>>, productive_app_minutes |-> <<>>,
     meetings_minutes |-> <<>>, focus_time_minutes |-> <<>>, deep_work_session |-> <<>>,
     sleep_hours |-> <<>>, steps |-> <<>>, productivity_score |-> <<>>]

-----------------------------------------------------------------------------
(* JavaScript arithmetic *)

\* a wrong default: `x || 1`
OrZero_DefaultOne(f) == IF f = <<>> THEN 1 ELSE f[1]

\* `x || 0` on an optional number: undefined and 0 are falsy
OrZero(f) == IF f = <<>> THEN 0 ELSE f[1]

\* truthiness of an optional boolean
Truthy(f) == f # <<>> /\ f[1]

\* n / d as an exact fraction
Frac(n, d) == <<n, d>>

\* Math.min(q, k) and Math.max(q, k) of a fraction q and an integer k
FracMin(q, k) == IF q[1] <= k * q[2] THEN q ELSE <<k, 1>>
FracMax(q, k) == IF q[1] >= k * q[2] THEN q ELSE <<k, 1>>

\* q * k
FracTimes(q, k) == <<q[1] * k, q[2]>>

\* Math.floor(q) in place of Math.round(q)
MathRound_Floor(q) == q[1] \div q[2]

\* Math.round(q): the integer nearest to q, a tie going to the larger one
MathRound(q) == (2 * q[1] + q[2]) \div (2 * q[2])

IntMin(a, b) == IF a <= b THEN a ELSE b
IntMax(a, b) == IF a >= b THEN a ELSE b

-----------------------------------------------------------------------------
(* calculateProductivityScore *)

WEIGHTS ==
    [commits |-> 10, prs |-> 10, codingMinutes |-> 10,
     exerciseMinutes |-> 15, workoutStreak |-> 5, exercisedToday |-> 5,
     focusTime |-> 15, deepWorkSession |-> 5, meetingsMinutes |-> 5,
     sleepHours |-> 5, steps |-> 5, excessiveScreenTime |-> -10]

\* the commit term without its cap
commitScore_Uncapped(m) == OrZero(m.github_commits) * 1

commitScore(m) == IntMin(OrZero(m.github_commits), 10) * 1

\* one point per pull request instead of two
prScore_OnePoint(m) == IntMin(OrZero(m.github_prs), 5)

prScore(m) == IntMin(OrZero(m.github_prs), 5) * 2

codingScore(m) == FracMin(Frac(OrZero(m.github_coding_minutes), 30), 10)

exerciseScore(m) == FracMin(Frac(OrZero(m.exercise_minutes), 15), 15)

streakScore(m) == IntMin(OrZero(m.workout_streak), 5)

exercisedBonus(m) == IF Truthy(m.exercised_today) THEN 5 ELSE 0

focusScore(m) == FracMin(Frac(OrZero(m.focus_time_minutes), 20), 15)

deepWorkBonus(m) == IF Truthy(m.deep_work_session) THEN 5 ELSE 0

meetingsPenalty(m) ==
    FracTimes(FracMax(Frac(OrZero(m.meetings_minutes) - 120, 60), 0), 2)

sleepScore(m) ==
    LET sleep == OrZero(m.sleep_hours)
    IN  IF sleep >= 7 * SleepScale /\ sleep <= 8 * SleepScale THEN 5
        ELSE IF sleep >= 6 * SleepScale /\ sleep <= 9 * SleepScale THEN 3
        ELSE IF sleep > 0 THEN 1
        ELSE 0

\* the steps term without its cap
stepsScore_Uncapped(m) == Frac(OrZero(m.steps), 2000)

stepsScore(m) == FracMin(Frac(OrZero(m.steps), 2000), 5)

screenTimePenalty(m) ==
    IF OrZero(m.screen_time_minutes) > 360 THEN WEIGHTS.excessiveScreenTime ELSE 0

\* the running total `score` just before the final clamp
rawScore(m) ==
    commitScore(m) + prScore(m) + MathRound(codingScore(m))
    + MathRound(exerciseScore(m)) + streakScore(m) + exercisedBonus(m)
    + MathRound(focusScore(m)) + deepWorkBonus(m) - MathRound(meetingsPenalty(m))
    + sleepScore(m) + MathRound(stepsScore(m))
    + screenTimePenalty(m)

\* the final clamp without its lower bound
calculateProductivityScore_NoFloor(m) == IntMin(100, rawScore(m))

calculateProductivityScore(m) == IntMax(0, IntMin(100, rawScore(m)))

-----------------------------------------------------------------------------
(* Inputs of the scoring specification *)

Day0 == "2024-01-07"

\* the record of the documented scenario
ScenarioMetrics ==
    [EmptyMetrics(Day0) EXCEPT
        !.github_commits = <<5>>, !.github_prs = <<2>>,
        !.github_coding_minutes = <<60>>, !.exercise_minutes = <<30>>,
        !.exercised_today = <<TRUE>>, !.focus_time_minutes = <<40>>,
        !.meetings_minutes = <<30>>, !.sleep_hours = <<75>>, !.steps = <<8000>>]

\* every positive term at its cap, no penalty
SaturatedMetrics ==
    [EmptyMetrics(Day0) EXCEPT
        !.github_commits = <<10>>, !.github_prs = <<5>>,
        !.github_coding_minutes = <<300>>, !.exercise_minutes = <<225>>,
        !.workout_streak = <<5>>, !.exercised_today = <<TRUE>>,
        !.focus_time_minutes = <<300>>, !.deep_work_session = <<TRUE>>,
        !.meetings_minutes = <<120>>, !.sleep_hours = <<80>>, !.steps = <<10000>>,
        !.screen_time_minutes = <<360>>]

BaseMetrics == {EmptyMetrics(Day0), ScenarioMetrics, SaturatedMetrics}

\* values a caller may put in a numeric field: around every cap, rounding
\* tie and threshold of the term that reads the field, and below zero
FieldValues ==
    [github_commits         |-> {-3, 0, 5, 10, 12},
     github_prs             |-> {-1, 0, 2, 5, 7},
     github_coding_minutes  |-> {-45, 0, 44, 45, 300, 330},
     exercise_minutes       |-> {-30, 0, 37, 38, 225, 240},
     workout_streak         |-> {-2, 0, 3, 5, 6},
     screen_time_minutes    |-> {-5, 0, 360, 361},
     productive_app_minutes |-> {0, 90},
     meetings_minutes       |-> {-60, 0, 120, 134, 135, 600, 3000},
     focus_time_minutes     |-> {-50, 0, 49, 50, 300, 320},
     sleep_hours            |-> {-10, 0, 5, 59, 60, 70, 80, 81, 90, 91},
     steps                  |-> {-1000, 0, 999, 1000, 10000, 12000},
     productivity_score     |-> {0, 50}]

-----------------------------------------------------------------------------
(* The scoring specification: a caller loads a record, scores it, then     *)
(* changes one field at a time and scores the record again.                *)

InitShared ==
    /\ metrics = EmptyMetrics(Day0)
    /\ score = <<>>
    /\ edits = 0
    /\ gradedScore = <<>>
    /\ grade = ""
    /\ description = ""
    /\ weeklyMetrics = <<>>
    /\ patterns = <<>>
    /\ aggregate = <<>>
    /\ timezoneOffset \in TimezoneOffsets
    /\ wallClock = 0
    /\ routeMetrics = <<>>
    /\ stravaFetched = <<>>
    /\ GEMINI_MODEL = "gemini-2.5-flash"
    /\ gemini = IdleCall
    /\ memoryStore = <<>>
    /\ savedTurns = <<>>
    /\ recentMessages = <<>>
    /\ supabase = FALSE
    /\ user_profile = {}
    /\ conversations = <<>>
    /\ chatTurns = <<>>

\* calculateProductivityScore(b) for a freshly assembled record b
ScoreRecord(b) ==
    /\ score = <<>>
    /\ metrics' = b
    /\ score' = <<calculateProductivityScore(b)>>
    /\ edits' = 0
    /\ UNCHANGED <<gradeVars, weekVars, envVars, serviceVars>>

\* the caller sets numeric field f to v and scores the record
ScoreWithNumber(f, v) ==
    /\ score # <<>>
    /\ edits < MaxEdits
    /\ metrics[f] # <<v>>
    /\ metrics' = [metrics EXCEPT ![f] = <<v>>]
    /\ score' = <<calculateProductivityScore(metrics')>>
    /\ edits' = edits + 1
    /\ UNCHANGED <<gradeVars, weekVars, envVars, serviceVars>>

\* the caller sets boolean field f to b and scores the record
ScoreWithBoolean(f, b) ==
    /\ score # <<>>
    /\ edits < MaxEdits
    /\ metrics[f] # <<b>>
    /\ metrics' = [metrics EXCEPT ![f] = <<b>>]
    /\ score' = <<calculateProductivityScore(metrics')>>
    /\ edits' = edits + 1
    /\ UNCHANGED <<gradeVars, weekVars, envVars, serviceVars>>

\* the caller leaves field f out and scores the record
ScoreWithout(f) ==
    /\ score # <<>>
    /\ edits < MaxEdits
    /\ metrics[f] # <<>>
    /\ metrics' = [metrics EXCEPT ![f] = <<>>]
    /\ score' = <<calculateProductivityScore(metrics')>>
    /\ edits' = edits + 1
    /\ UNCHANGED <<gradeVars, weekVars, envVars, serviceVars>>

NextScore ==
    \/ \E b \in BaseMetrics : ScoreRecord(b)
    \/ \E f \in NumericFields : \E v \in FieldValues[f] : ScoreWithNumber(f, v)
    \/ \E f \in BooleanFields : \E b \in BOOLEAN : ScoreWithBoolean(f, b)
    \/ \E f \in NumericFields \cup BooleanFields : ScoreWithout(f)

SpecScore == InitShared /\ [][NextScore]_vars

-----------------------------------------------------------------------------
(* getScoreGrade and getScoreDescription *)

\* the D band left out: everything under 60 is an F
getScoreGrade_NoD(s) ==
    IF s >= 90 THEN "A+"
    ELSE IF s >= 80 THEN "A"
    ELSE IF s >= 70 THEN "B"
    ELSE IF s >= 60 THEN "C"
    ELSE "F"

\* strict comparisons in place of >=
getScoreGrade_Strict(s) ==
    IF s > 90 THEN "A+"
    ELSE IF s > 80 THEN "A"
    ELSE IF s > 70 THEN "B"
    ELSE IF s > 60 THEN "C"
    ELSE IF s > 50 THEN "D"
    ELSE "F"

getScoreGrade(s) ==
    IF s >= 90 THEN "A+"
    ELSE IF s >= 80 THEN "A"
    ELSE IF s >= 70 THEN "B"
    ELSE IF s >= 60 THEN "C"
    ELSE IF s >= 50 THEN "D"
    ELSE "F"

\* the second band starting at 85 instead of 80
getScoreDescription_Shifted(s) ==
    IF s >= 90 THEN "Exceptional productivity!"
    ELSE IF s >= 85 THEN "Great day! Keep it up!"
    ELSE IF s >= 70 THEN "Good progress"
    ELSE IF s >= 60 THEN "Decent day, room for improvement"
    ELSE IF s >= 50 THEN "Below average, consider adjustments"
    ELSE "Low productivity, analyze and adjust"

\* each phrase without the emoji that ends it in the source
getScoreDescription(s) ==
    IF s >= 90 THEN "Exceptional productivity!"
    ELSE IF s >= 80 THEN "Great day! Keep it up!"
    ELSE IF s >= 70 THEN "Good progress"
    ELSE IF s >= 60 THEN "Decent day, room for improvement"
    ELSE IF s >= 50 THEN "Below average, consider adjustments"
    ELSE "Low productivity, analyze and adjust"

\* the scores calculateProductivityScore's clamp allows
ScoreRange == 0..100

\* a caller grades and describes score s, as GET /metrics/daily does
GradeScore(s) ==
    /\ gradedScore' = <<s>>
    /\ grade' = getScoreGrade(s)
    /\ description' = getScoreDescription(s)
    /\ UNCHANGED <<scoreVars, weekVars, envVars, serviceVars>>

NextGrade == \E s \in ScoreRange : GradeScore(s)

SpecGrade == InitShared /\ [][NextGrade]_vars

-----------------------------------------------------------------------------
(* JavaScript numbers in detectPatterns                                    *)
(*                                                                         *)
(* The means, their differences and the correlation are IEEE-754 binary64  *)
(* values: a quotient such as 103 / 3 is rounded to 53 significant bits,   *)
(* and a later comparison sees the rounded value.  The magnitude of a      *)
(* number is kept as an integer count of units of 2^-75, written in limbs  *)
(* of 15 bits, least significant first and without leading zero limbs;     *)
(* every operation computes the exact result and rounds it to nearest,     *)
(* ties to even, as the hardware does.                                     *)

LimbBase == 32768

\* limbs below the binary point
FracLimbs == 5

\* significant bits of a binary64 number
MantissaBits == 53

Pow2(k) == 2 ^ k

Zeros(k) == [i \in 1..k |-> 0]

Limb(x, i) == IF i <= Len(x) THEN x[i] ELSE 0

RECURSIVE Strip(_)
Strip(x) ==
    IF x # <<>> /\ x[Len(x)] = 0 THEN Strip(SubSeq(x, 1, Len(x) - 1)) ELSE x

\* bring every limb into 0..LimbBase-1, carrying (or borrowing) upwards
RECURSIVE Carry(_, _)
Carry(x, c) ==
    IF x = <<>>
    THEN IF c = 0 THEN <<>> ELSE <<c % LimbBase>> \o Carry(<<>>, c \div LimbBase)
    ELSE <<(x[1] + c) % LimbBase>> \o Carry(Tail(x), (x[1] + c) \div LimbBase)

BigPlus(x, y) ==
    Strip(Carry([i \in 1..IntMax(Len(x), Len(y)) |-> Limb(x, i) + Limb(y, i)], 0))

\* x - y, for x >= y
BigMinus(x, y) ==
    Strip(Carry([i \in 1..IntMax(Len(x), Len(y)) |-> Limb(x, i) - Limb(y, i)], 0))

\* x * k, for a small natural k
BigTimes(x, k) == Strip(Carry([i \in 1..Len(x) |-> x[i] * k], 0))

BigLess(x, y) ==
    \E i \in 1..IntMax(Len(x), Len(y)) :
        /\ Limb(x, i) < Limb(y, i)
        /\ \A j \in (i + 1)..IntMax(Len(x), Len(y)) : Limb(x, j) = Limb(y, j)

\* the remainder of limbs i.. of x (as a number) divided by d
RECURSIVE RemFrom(_, _, _)
RemFrom(x, d, i) ==
    IF i > Len(x) THEN 0 ELSE (RemFrom(x, d, i + 1) * LimbBase + x[i]) % d

\* x divided by a small natural d: quotient and remainder
BigDivide(x, d) ==
    [quot |-> Strip([i \in 1..Len(x) |-> (RemFrom(x, d, i + 1) * LimbBase + x[i]) \div d]),
     rem  |-> RemFrom(x, d, 1)]

\* the number of significant bits of x # 0
BitLength(x) ==
    15 * (Len(x) - 1)
    + (CHOOSE b \in 1..15 : Pow2(b - 1) <= x[Len(x)] /\ x[Len(x)] < Pow2(b))

\* x rounded to MantissaBits significant bits, nearest and ties to even;
\* `inexact` says that the exact value lies strictly between x and x + 1
RoundToDouble(x, inexact) ==
    IF x = <<>> \/ BitLength(x) <= MantissaBits THEN x
    ELSE LET rounded(k, b) ==
                 LET half == IF b > 0 THEN Zeros(k) \o <<Pow2(b - 1)>>
                             ELSE Zeros(k - 1) \o <<Pow2(14)>>
                     up(q, rem) ==
                         \/ BigLess(half, rem)
                         \/ rem = half /\ (inexact \/ q.quot[1] % 2 = 1)
                     kept(q) ==
                         IF up(q, Strip(SubSeq(x, 1, k) \o <<q.rem>>))
                         THEN BigPlus(q.quot, <<1>>) ELSE q.quot
                 IN  CHOOSE r \in {Zeros(k) \o BigTimes(kept(q), Pow2(b)) :
                                    q \in {BigDivide(SubSeq(x, k + 1, Len(x)), Pow2(b))}} : TRUE
         IN  CHOOSE r \in {rounded(drop \div 15, drop % 15) :
                            drop \in {BitLength(x) - MantissaBits}} : TRUE

\* a number: sign and magnitude
Number(neg, mag) == [neg |-> neg, mag |-> mag]

\* the number a small natural n converts to
FromInt(n) == Number(FALSE, Strip(Zeros(FracLimbs) \o <<n>>))

\* a / b for naturals a and b > 0
Quotient(a, b) ==
    CHOOSE r \in {Number(FALSE, RoundToDouble(q.quot, q.rem # 0)) :
                   q \in {BigDivide(Strip(Zeros(FracLimbs) \o <<a>>), b)}} : TRUE

\* x - y for numbers x, y >= 0
Minus(x, y) ==
    CHOOSE r \in {IF BigLess(a, b)
                   THEN Number(TRUE, CHOOSE m \in {RoundToDouble(d, FALSE) : d \in {BigMinus(b, a)}} : TRUE)
                   ELSE Number(FALSE, CHOOSE m \in {RoundToDouble(d, FALSE) : d \in {BigMinus(a, b)}} : TRUE) :
                   a \in {x.mag}, b \in {y.mag}} : TRUE

\* x / d for a small natural d > 0
Over(x, d) ==
    CHOOSE r \in {Number(v.neg, RoundToDouble(q.quot, q.rem # 0)) :
                   v \in {x}, q \in {BigDivide(x.mag, d)}} : TRUE

\* x * k for a small natural k
Times(x, k) ==
    CHOOSE r \in {Number(v.neg, CHOOSE m \in {RoundToDouble(p, FALSE) : p \in {BigTimes(v.mag, k)}} : TRUE) :
                   v \in {x}} : TRUE

\* x > y
Greater(x, y) ==
    \E a \in {x}, b \in {y} :
        IF a.neg
        THEN b.neg /\ BigLess(a.mag, b.mag)
        ELSE (b.neg /\ (a.mag # <<>> \/ b.mag # <<>>)) \/ BigLess(b.mag, a.mag)

Negated(x) == Number(~x.neg, x.mag)

One == FromInt(1)

\* Math.min(1, Math.max(-1, x))
ClampToUnit(x) ==
    CHOOSE r \in {IF BigLess(One.mag, v.mag) THEN Number(v.neg, One.mag) ELSE v :
                   v \in {x}} : TRUE

\* the integer part of a magnitude below LimbBase, and whether a fraction is left
IntegerPart(mag) == Limb(mag, FracLimbs + 1)

HasFraction(mag) == \E i \in 1..FracLimbs : Limb(mag, i) # 0

\* the magnitude of 1/2
HalfUnit == Zeros(FracLimbs - 1) \o <<Pow2(14)>>

\* Math.round(x), the integer floor(x + 1/2), for |x| < LimbBase - 1
RoundNumber(x) ==
    CHOOSE r \in {IF ~v.neg THEN IntegerPart(BigPlus(v.mag, HalfUnit))
                   ELSE IF ~BigLess(HalfUnit, v.mag) THEN 0
                   ELSE CHOOSE n \in {-(IntegerPart(below) + (IF HasFraction(below) THEN 1 ELSE 0)) :
                                      below \in {BigMinus(v.mag, HalfUnit)}} : TRUE :
                   v \in {x}} : TRUE

-----------------------------------------------------------------------------
(* detectPatterns                                                          *)
(*                                                                         *)
(* The standard deviation of n scores with sum S and sum of squares Q is   *)
(* sqrt(V) / n, where V = n*Q - S*S; it is never computed: every           *)
(* comparison the code makes with `consistency` is decided on V and n.     *)
(* A comparison of a mean difference or of the correlation with a          *)
(* threshold is decided on the exact fractions when these differ from the  *)
(* threshold: the rounding of the quotients moves a value by less than     *)
(* 2^-40, and an exact value that differs from the threshold differs by    *)
(* at least 1 / (100 * n * n).  When the exact values tie, the rounded     *)
(* arithmetic decides, and it is carried out.                              *)

\* workoutCorrelation is returned rounded to 1/CorrelationScale
CorrelationScale == 100

\* the calendar the dates are taken from; the first one is a Sunday
CalendarDates ==
    <<"2024-01-07", "2024-01-08", "2024-01-09", "2024-01-10", "2024-01-11",
      "2024-01-12", "2024-01-13", "2024-01-14", "2024-01-15", "2024-01-16",
      "2024-01-17", "2024-01-18", "2024-01-19", "2024-01-20">>

\* the weekday of the calendar date: 0 = Sunday .. 6 = Saturday
Weekdays ==
    [date \in {CalendarDates[i] : i \in 1..Len(CalendarDates)} |->
        ((CHOOSE i \in 1..Len(CalendarDates) : CalendarDates[i] = date) - 1) % 7]

\* new Date(date).getDay(): `date` is parsed as midnight UTC and getDay()
\* answers in local time, which west of Greenwich is still the evening before
getDay(date) ==
    IF timezoneOffset > 0 THEN (Weekdays[date] + 6) % 7 ELSE Weekdays[date]

days == <<"Sunday", "Monday", "Tuesday", "Wednesday", "Thursday", "Friday", "Saturday">>

\* a sum that weighs every day by the number of days from it to the end
RECURSIVE SumOf_Positional(_)
SumOf_Positional(ds) ==
    IF ds = <<>> THEN 0 ELSE Len(ds) * ds[1].score + SumOf_Positional(Tail(ds))

RECURSIVE SumOf(_)
\* reduce((s, d) => s + d.score, 0)
SumOf(ds) == IF ds = <<>> THEN 0 ELSE ds[1].score + SumOf(Tail(ds))

RECURSIVE SumOfSquares(_)
SumOfSquares(ds) ==
    IF ds = <<>> THEN 0 ELSE ds[1].score * ds[1].score + SumOfSquares(Tail(ds))

\* filter(pred) for the two partitions by `exercised`
FilterExercised(ds, flag) == SelectSeq(ds, LAMBDA d : d.exercised = flag)

\* an insertion that puts a later element before its equals: not stable
RECURSIVE InsertDesc_Unstable(_, _)
InsertDesc_Unstable(x, sorted) ==
    IF sorted = <<>> THEN <<x>>
    ELSE IF sorted[1].score > x.score
        THEN <<sorted[1]>> \o InsertDesc_Unstable(x, Tail(sorted))
    ELSE <<x>> \o sorted

\* Array.prototype.sort((a, b) => b.score - a.score): stable, descending
RECURSIVE InsertDesc(_, _)
InsertDesc(x, sorted) ==
    IF sorted = <<>> THEN <<x>>
    ELSE IF sorted[1].score >= x.score THEN <<sorted[1]>> \o InsertDesc(x, Tail(sorted))
    ELSE <<x>> \o sorted

RECURSIVE SortDesc(_)
SortDesc(ds) ==
    IF ds = <<>> THEN <<>>
    ELSE InsertDesc(ds[Len(ds)], SortDesc(SubSeq(ds, 1, Len(ds) - 1)))

\* the map trusting a supplied productivity_score instead of recomputing
dailyScoresOf_TrustSupplied(w) ==
    [i \in 1..Len(w) |->
        [date            |-> w[i].date,
         score           |-> IF w[i].productivity_score # <<>>
                                 THEN w[i].productivity_score[1]
                             ELSE calculateProductivityScore(w[i]),
         exercised       |-> Truthy(w[i].exercised_today),
         exerciseMinutes |-> OrZero(w[i].exercise_minutes)]]

\* weeklyMetrics.map(m => ({date, score, exercised, exerciseMinutes}))
dailyScoresOf(w) ==
    [i \in 1..Len(w) |->
        [date            |-> w[i].date,
         score           |-> calculateProductivityScore(w[i]),
         exercised       |-> Truthy(w[i].exercised_today),
         exerciseMinutes |-> OrZero(w[i].exercise_minutes)]]

\* n*n*variance of the scores: n * (sum of squares) - (sum)^2
VarianceNumerator(ds) == Len(ds) * SumOfSquares(ds) - SumOf(ds) * SumOf(ds)

\* the same comparison for the sample standard deviation sqrt(v / (n * (n - 1)))
AtLeastHalves_SampleDivisor(v, n, h) ==
    \/ h <= 0
    \/ /\ h <= 200
       /\ n * (n - 1) * (200 - h) * (200 - h) >= 16 * v

\* Math.max(0, 100 - stdDev * 2) >= h/2, where stdDev = sqrt(v) / n
AtLeastHalves(v, n, h) ==
    \/ h <= 0
    \/ /\ h <= 200
       /\ n * n * (200 - h) * (200 - h) >= 16 * v

ConsistencyAtLeast(ds, h) == AtLeastHalves(VarianceNumerator(ds), Len(ds), h)

\* the largest c in lo..hi with Math.max(0, 100 - stdDev * 2) >= c - 1/2,
\* found by halving the interval: the comparison holds at lo and, holding
\* at c, holds below c
RECURSIVE LargestRounding(_, _, _, _)
LargestRounding(v, n, lo, hi) ==
    IF lo = hi THEN lo
    ELSE IF AtLeastHalves(v, n, 2 * ((lo + hi + 1) \div 2) - 1)
        THEN LargestRounding(v, n, (lo + hi + 1) \div 2, hi)
    ELSE LargestRounding(v, n, lo, (lo + hi + 1) \div 2 - 1)

\* Math.round(consistency): the largest c in 0..100 with consistency >= c - 1/2
RoundedConsistency(ds) ==
    CHOOSE r \in {LargestRounding(v, Len(ds), 0, 100) : v \in {VarianceNumerator(ds)}} : TRUE

\* the correlation without the `length > 0` test: the mean of an empty
\* partition counts as 0
workoutCorrelationOf_EmptyAsZero(ds) ==
    LET exercisedDays    == FilterExercised(ds, TRUE)
        nonExercisedDays == FilterExercised(ds, FALSE)
        e == IntMax(Len(exercisedDays), 1)
        n == IntMax(Len(nonExercisedDays), 1)
    IN  FracMin(FracMax(
            Frac(SumOf(exercisedDays) * n - SumOf(nonExercisedDays) * e, 50 * e * n), -1), 1)

\* the correlation without Math.min(1, Math.max(-1, ...))
workoutCorrelationOf_Unclamped(ds) ==
    LET exercisedDays    == FilterExercised(ds, TRUE)
        nonExercisedDays == FilterExercised(ds, FALSE)
    IN  IF Len(exercisedDays) > 0 /\ Len(nonExercisedDays) > 0
        THEN Frac(SumOf(exercisedDays) * Len(nonExercisedDays)
                    - SumOf(nonExercisedDays) * Len(exercisedDays),
                  50 * Len(exercisedDays) * Len(nonExercisedDays))
        ELSE Frac(0, 1)

\* the value of the workoutCorrelation expression in exact arithmetic, a fraction
workoutCorrelationOf(ds) ==
    LET exercisedDays    == FilterExercised(ds, TRUE)
        nonExercisedDays == FilterExercised(ds, FALSE)
    IN  IF Len(exercisedDays) > 0 /\ Len(nonExercisedDays) > 0
        THEN \* (avgExercised - avgNonExercised) / 50, clamped to [-1, 1]
             FracMin(FracMax(
                 Frac(SumOf(exercisedDays) * Len(nonExercisedDays)
                        - SumOf(nonExercisedDays) * Len(exercisedDays),
                      50 * Len(exercisedDays) * Len(nonExercisedDays)), -1), 1)
        ELSE Frac(0, 1)

\* the number the code holds in workoutCorrelation
workoutCorrelationNumber(ds) ==
    LET exercisedDays    == FilterExercised(ds, TRUE)
        nonExercisedDays == FilterExercised(ds, FALSE)
        correlation(avgExercised, avgNonExercised) ==
            ClampToUnit(Over(Minus(avgExercised, avgNonExercised), 50))
    IN  IF Len(exercisedDays) > 0 /\ Len(nonExercisedDays) > 0
        THEN CHOOSE r \in
                 {correlation(e, n) :
                     e \in {Quotient(SumOf(exercisedDays), Len(exercisedDays))},
                     n \in {Quotient(SumOf(nonExercisedDays), Len(nonExercisedDays))}} : TRUE
        ELSE FromInt(0)

\* the literals 0.3 and -0.2
PositiveThreshold == Quotient(3, 10)

NegativeThreshold == Negated(Quotient(2, 10))

\* workoutCorrelation > 0.3
CorrelationIsPositive(ds) ==
    \E wc \in {workoutCorrelationOf(ds)} :
        IF 10 * wc[1] # 3 * wc[2] THEN 10 * wc[1] > 3 * wc[2]
        ELSE Greater(workoutCorrelationNumber(ds), PositiveThreshold)

\* workoutCorrelation < -0.2
CorrelationIsNegative(ds) ==
    \E wc \in {workoutCorrelationOf(ds)} :
        IF 10 * wc[1] # -2 * wc[2] THEN 10 * wc[1] < -2 * wc[2]
        ELSE Greater(NegativeThreshold, workoutCorrelationNumber(ds))

\* Math.round(workoutCorrelation * 100), the returned value in hundredths
RoundedCorrelation(ds) ==
    CHOOSE r \in
        {IF (2 * CorrelationScale * wc[1]) % wc[2] = 0
               /\ ((2 * CorrelationScale * wc[1]) \div wc[2]) % 2 = 1
         THEN RoundNumber(Times(workoutCorrelationNumber(ds), CorrelationScale))
         ELSE MathRound(FracTimes(wc, CorrelationScale)) :
         wc \in {workoutCorrelationOf(ds)}} : TRUE

Ten == FromInt(10)

\* the trend decided on the two numbers firstHalf and secondHalf
trendOfHalves(firstHalf, secondHalf) ==
    IF Greater(Minus(secondHalf, firstHalf), Ten) THEN "improving"
    ELSE IF Greater(Minus(firstHalf, secondHalf), Ten) THEN "declining"
    ELSE "stable"

trendOf(ds) ==
    IF Len(ds) >= 4
    THEN LET midpoint == Len(ds) \div 2
             first    == SumOf(SubSeq(ds, 1, midpoint))
             second   == SumOf(SubSeq(ds, midpoint + 1, Len(ds)))
             rest     == Len(ds) - midpoint
             \* (secondHalf - firstHalf) * midpoint * rest in exact arithmetic
             scaled   == second * midpoint - first * rest
         IN  IF scaled > 10 * midpoint * rest THEN "improving"
             ELSE IF -scaled > 10 * midpoint * rest THEN "declining"
             ELSE IF scaled # 10 * midpoint * rest /\ -scaled # 10 * midpoint * rest
                 THEN "stable"
             ELSE CHOOSE t \in {trendOfHalves(f, s) :
                                 f \in {Quotient(first, midpoint)},
                                 s \in {Quotient(second, rest)}} : TRUE
    ELSE "stable"

\* Object.entries(dayScores): one entry per weekday that occurs, ascending key
dayScoreEntries(ds) ==
    LET total(k) == SumOf(SelectSeq(ds, LAMBDA d : getDay(d.date) = k))
        occurs(k) == \E i \in 1..Len(ds) : getDay(ds[i].date) = k
        all == [k \in 1..7 |-> [day |-> k - 1, score |-> total(k - 1), seen |-> occurs(k - 1)]]
    IN  SelectSeq(all, LAMBDA e : e.seen)

generateInsights(ds, trend) ==
    LET consistencyInsight ==
            IF ConsistencyAtLeast(ds, 160)
                THEN <<"Highly consistent - you maintain steady productivity">>
            ELSE IF ~ConsistencyAtLeast(ds, 100)
                THEN <<"High variability - productivity fluctuates significantly">>
            ELSE <<>>
        workoutInsight ==
            IF CorrelationIsPositive(ds)
                THEN <<"Exercise significantly boosts your productivity">>
            ELSE IF CorrelationIsNegative(ds)
                THEN <<"Productivity seems lower on exercise days - check timing">>
            ELSE <<>>
        trendInsight ==
            IF trend = "improving" THEN <<"Productivity is trending upward this week">>
            ELSE IF trend = "declining" THEN <<"Productivity declining - consider a reset">>
            ELSE <<>>
        entries == SortDesc(dayScoreEntries(ds))
        dayInsight ==
            IF entries # <<>>
                THEN <<"Most productive on " \o days[entries[1].day + 1] \o "s">>
            ELSE <<>>
    IN  consistencyInsight \o workoutInsight \o trendInsight \o dayInsight

\* i.includes(word), for the insights generateInsights can produce
Includes(i, word) ==
    \/ word = "fluctuates"
       /\ i = "High variability - productivity fluctuates significantly"
    \/ word = "declining"
       /\ i = "Productivity declining - consider a reset"

\* `if (lastDay && lastDay.score < 50)`, lastDay = dailyScores[0]
lowScoreRecommendations(ds) ==
    IF Len(ds) > 0 /\ ds[1].score < 50
        THEN <<"Start tomorrow with exercise to boost productivity",
               "Block focus time early in the morning">>
    ELSE <<>>

\* `if (!lastDay?.exercised)`
noExerciseRecommendations(ds) ==
    IF ~(Len(ds) > 0 /\ ds[1].exercised)
        THEN <<"Add a 20-minute workout to improve focus">>
    ELSE <<>>

\* `if (insights.some(i => i.includes('fluctuates')))`
variabilityRecommendations(insights) ==
    IF \E k \in 1..Len(insights) : Includes(insights[k], "fluctuates")
        THEN <<"Create a more consistent daily routine",
               "Set fixed times for coding, exercise, and rest">>
    ELSE <<>>

\* `if (insights.some(i => i.includes('declining')))`
decliningRecommendations(insights) ==
    IF \E k \in 1..Len(insights) : Includes(insights[k], "declining")
        THEN <<"Take a rest day and plan for next week",
               "Review what changed in your routine">>
    ELSE <<>>

generalRecommendations ==
    <<"Aim for 7-8 hours of sleep",
      "Schedule deep work sessions (>2 hours)",
      "Limit meetings to 2 hours per day">>

\* the pushes reordered: the general recommendations first
accumulatedRecommendations_GeneralFirst(ds, insights) ==
    generalRecommendations
    \o lowScoreRecommendations(ds) \o noExerciseRecommendations(ds)
    \o variabilityRecommendations(insights) \o decliningRecommendations(insights)

\* the array `recommendations` as it stands before the final slice
accumulatedRecommendations(ds, insights) ==
    lowScoreRecommendations(ds) \o noExerciseRecommendations(ds)
    \o variabilityRecommendations(insights) \o decliningRecommendations(insights)
    \o generalRecommendations

\* recommendations.slice(0, 5)
SliceFive(recommendations) ==
    SubSeq(recommendations, 1, IntMin(5, Len(recommendations)))

\* the function returning the whole array, without the slice
generateRecommendations_NoSlice(ds, insights) == accumulatedRecommendations(ds, insights)

generateRecommendations(ds, insights) == SliceFive(accumulatedRecommendations(ds, insights))

\* the result returned for an empty weeklyMetrics
NeutralAnalysis ==
    [avgDailyScore |-> 0, consistency |-> 0, workoutCorrelation |-> 0,
     bestDay |-> "N/A", worstDay |-> "N/A", trend |-> "stable",
     insights |-> <<>>, recommendations |-> <<>>]

\* detectPatterns from `// Average score` on, for the scores ds of a non-empty week
analyzeScores(ds) ==
    LET sorted   == SortDesc(ds)
        trend    == trendOf(ds)
        insights == generateInsights(ds, trend)
    IN  [avgDailyScore      |-> MathRound(Frac(SumOf(ds), Len(ds))),
         consistency        |-> RoundedConsistency(ds),
         workoutCorrelation |-> RoundedCorrelation(ds),
         bestDay            |-> sorted[1].date,
         worstDay           |-> sorted[Len(sorted)].date,
         trend              |-> trend,
         insights           |-> insights,
         recommendations    |-> generateRecommendations(ds, insights)]

\* detectPatterns past its first `if`: the scores are computed once per day
analyzeWeek(w) == CHOOSE r \in {analyzeScores(ds) : ds \in {dailyScoresOf(w)}} : TRUE

\* detectPatterns without `if (!weeklyMetrics.length)`: on an empty array the
\* averages are NaN (shown as 0), bestDay / worstDay fall back to 'N/A', no
\* insight is produced and generateRecommendations still runs
detectPatterns_NoEmptyBranch(w) ==
    IF Len(w) = 0
    THEN [NeutralAnalysis EXCEPT !.recommendations = generateRecommendations(<<>>, <<>>)]
    ELSE analyzeWeek(w)

detectPatterns(w) == IF Len(w) = 0 THEN NeutralAnalysis ELSE analyzeWeek(w)

-----------------------------------------------------------------------------
(* aggregateWeeklyMetrics *)

\* reduce((sum, m) => sum + (m[field] || 0), 0)
RECURSIVE TotalOf(_, _)
TotalOf(w, field) ==
    IF w = <<>> THEN 0 ELSE OrZero(w[1][field]) + TotalOf(Tail(w), field)

\* reduce((sum, m) => sum + calculateProductivityScore(m), 0)
RECURSIVE TotalScore(_)
TotalScore(w) ==
    IF w = <<>> THEN 0 ELSE calculateProductivityScore(w[1]) + TotalScore(Tail(w))

\* Math.round(0 / 0) of the empty array
NaN == "NaN"

\* the totals with avgScore cut down by Math.floor instead of rounded
aggregateWeeklyMetrics_FloorAvg(dailyMetrics) ==
    [totalCodingMinutes   |-> TotalOf(dailyMetrics, "github_coding_minutes"),
     totalExerciseMinutes |-> TotalOf(dailyMetrics, "exercise_minutes"),
     totalFocusMinutes    |-> TotalOf(dailyMetrics, "focus_time_minutes"),
     avgScore             |-> IF Len(dailyMetrics) = 0 THEN NaN
                              ELSE TotalScore(dailyMetrics) \div Len(dailyMetrics),
     daysWorked           |-> Len(SelectSeq(dailyMetrics, LAMBDA m : OrZero(m.github_commits) > 0)),
     daysExercised        |-> Len(SelectSeq(dailyMetrics, LAMBDA m : Truthy(m.exercised_today)))]

aggregateWeeklyMetrics(dailyMetrics) ==
    [totalCodingMinutes   |-> TotalOf(dailyMetrics, "github_coding_minutes"),
     totalExerciseMinutes |-> TotalOf(dailyMetrics, "exercise_minutes"),
     totalFocusMinutes    |-> TotalOf(dailyMetrics, "focus_time_minutes"),
     avgScore             |-> IF Len(dailyMetrics) = 0 THEN NaN
                              ELSE MathRound(Frac(TotalScore(dailyMetrics), Len(dailyMetrics))),
     daysWorked           |-> Len(SelectSeq(dailyMetrics, LAMBDA m : OrZero(m.github_commits) > 0)),
     daysExercised        |-> Len(SelectSeq(dailyMetrics, LAMBDA m : Truthy(m.exercised_today)))]

-----------------------------------------------------------------------------
(* The weekly specification: a caller assembles one record per day, oldest *)
(* first on consecutive dates as GET /metrics/weekly does, then calls      *)
(* detectPatterns.                                                         *)

\* every term at its cap but the exercised_today flag not set: 85 - 5 = 80
UnflaggedMetrics == [SaturatedMetrics EXCEPT !.exercised_today = <<FALSE>>]

\* a workout and a full day of coding: 10 + 10 + 10 + 15 + 5 = 50
BalancedDayMetrics ==
    [EmptyMetrics(Day0) EXCEPT
        !.github_commits = <<10>>, !.github_prs = <<5>>,
        !.github_coding_minutes = <<300>>, !.exercise_minutes = <<225>>,
        !.exercised_today = <<TRUE>>]

\* a rest day with a short workout: 3 + 5 + 5 + 5 + 5 = 23
RecoveryDayMetrics ==
    [EmptyMetrics(Day0) EXCEPT
        !.exercise_minutes = <<45>>, !.workout_streak = <<5>>,
        !.exercised_today = <<TRUE>>, !.sleep_hours = <<80>>, !.steps = <<10000>>]

\* the days a week is assembled from, by (score, exercised):
\* (0, no), (80, no), (50, yes), (23, yes)
DayPalette == {EmptyMetrics(Day0), UnflaggedMetrics, BalancedDayMetrics, RecoveryDayMetrics}

\* weekMetrics.push(dayMetrics) for the next date; the route stores the
\* day's own score in productivity_score
AddDay(m) ==
    /\ patterns = <<>>
    /\ aggregate = <<>>
    /\ Len(weeklyMetrics) < MaxDays
    /\ weeklyMetrics' =
           Append(weeklyMetrics,
                  [m EXCEPT !.date = CalendarDates[Len(weeklyMetrics) + 1],
                            !.productivity_score = <<calculateProductivityScore(m)>>])
    /\ UNCHANGED <<patterns, aggregate, scoreVars, gradeVars, envVars, serviceVars>>

\* const patterns = detectPatterns(weekMetrics)
Analyze ==
    /\ patterns = <<>>
    /\ aggregate = <<>>
    /\ patterns' = <<detectPatterns(weeklyMetrics)>>
    /\ UNCHANGED <<weeklyMetrics, aggregate, scoreVars, gradeVars, envVars, serviceVars>>

\* a caller asks for the totals of the same days instead
Aggregate ==
    /\ patterns = <<>>
    /\ aggregate = <<>>
    /\ aggregate' = <<aggregateWeeklyMetrics(weeklyMetrics)>>
    /\ UNCHANGED <<weeklyMetrics, patterns, scoreVars, gradeVars, envVars, serviceVars>>

\* the weekly route
NextWeek ==
    \/ \E m \in DayPalette : AddDay(m)
    \/ Analyze

SpecWeek == InitShared /\ [][NextWeek]_vars

\* the same days handed to either summary: detectPatterns or aggregateWeeklyMetrics
NextSummary ==
    \/ \E m \in DayPalette : AddDay(m)
    \/ Analyze
    \/ Aggregate

SpecSummary == InitShared /\ [][NextSummary]_vars

-----------------------------------------------------------------------------
(* GET /metrics/weekly: the exercise fields taken from Strava              *)
(*                                                                         *)
(* Days are numbered along CalendarDates. An activity is modelled by the   *)
(* day of its start_date; what Strava answers for a date is an input.      *)

\* activities.some(a => a.start_date.startsWith(today)), today = new Date()
hasExercisedToday(activities) == \E a \in activities : a = wallClock

\* the number of days wallClock, wallClock - 1, ... found in dates before the
\* first gap, trying at most `left` of them
RECURSIVE StreakFrom(_, _, _)
StreakFrom(dates, i, left) ==
    IF left = 0 \/ (wallClock - i) \notin dates THEN 0
    ELSE 1 + StreakFrom(dates, i + 1, left - 1)

\* the loop over sortedDates: expectedDate = today - i
getWorkoutStreak(activities) ==
    IF activities = {} THEN 0 ELSE StreakFrom(activities, 0, Cardinality(activities))

\* the route is entered on wall-clock day t
ServeWeekly(t) ==
    /\ wallClock = 0
    /\ wallClock' = t
    /\ UNCHANGED <<routeMetrics, stravaFetched, scoreVars, gradeVars, weekVars, envVars,
                   geminiVars, memoryVars, chatVars>>

\* one turn of the loop for the next date of the window: Strava answers
\* stravaData and the exercise fields of dayMetrics are computed from it
BuildDay(stravaData) ==
    /\ wallClock # 0
    /\ Len(routeMetrics) < MaxDays
    /\ routeMetrics' =
           Append(routeMetrics,
                  [date            |-> CalendarDates[Len(routeMetrics) + 1],
                   workout_streak  |-> getWorkoutStreak(stravaData),
                   exercised_today |-> hasExercisedToday(stravaData)])
    /\ stravaFetched' = Append(stravaFetched, stravaData)
    /\ UNCHANGED <<wallClock, scoreVars, gradeVars, weekVars, envVars,
                   geminiVars, memoryVars, chatVars>>

\* the window starts on day 1; the request is served on its last day at
\* the earliest (the default window ends today) or on a later day
NextRoute ==
    \/ \E t \in 1..(MaxDays + 1) : ServeWeekly(t)
    \/ \E stravaData \in SUBSET {Len(routeMetrics), Len(routeMetrics) + 1} :
           BuildDay(stravaData)

SpecRoute == InitShared /\ [][NextRoute]_vars

-----------------------------------------------------------------------------
(* analyzeWithGemini (src/src/main.ts, the Gemini service)                 *)
(*                                                                         *)
(* What the API answers to one axios.post is an input: a status and, for   *)
(* a 2xx answer, candidates[0].content.parts[0].text (<<>> when some part  *)
(* of that path is missing).                                               *)

GEMINI_MODELS ==
    <<"gemini-2.5-flash", "gemini-2.5-pro", "gemini-2.0-flash", "gemini-2.0-flash-001">>

GeminiResponses ==
    {[status |-> 429, text |-> <<>>],
     [status |-> 200, text |-> <<>>],
     [status |-> 200, text |-> <<"">>],
     [status |-> 200, text |-> <<"analysis">>]}

\* axios.post resolves for a 2xx status and rejects otherwise
Resolves(response) == response.status \div 100 = 2

\* the test `!text` taken for an absent text and for the empty string
hasText_EmptyAccepted(text) == text # <<>>

\* the negation of `!text`
hasText(text) == text # <<>> /\ text[1] # ""

\* entry of analyzeWithGemini: nothing has been requested yet
analyzeWithGemini ==
    /\ gemini.status # "running"
    /\ gemini.calls < MaxAnalyses
    /\ gemini' = [calls |-> gemini.calls + 1, status |-> "running", requests |-> <<>>,
                  responses |-> <<>>, result |-> <<>>]
    /\ UNCHANGED <<GEMINI_MODEL, scoreVars, gradeVars, weekVars, envVars, routeVars,
                   memoryVars, chatVars>>

\* one turn of `for (const model of GEMINI_MODELS)`: the request to the next
\* model is answered by response; the turn returns the text, or is caught and
\* goes on to the next model, or leaves the loop to the final throw
TryModel(response) ==
    /\ gemini.status = "running"
    /\ Len(gemini.requests) < Len(GEMINI_MODELS)
    /\ LET model == GEMINI_MODELS[Len(gemini.requests) + 1]
           sent  == [gemini EXCEPT !.requests = Append(@, model),
                                   !.responses = Append(@, response)]
       IN  IF Resolves(response) /\ hasText(response.text)
             THEN /\ GEMINI_MODEL' = model
                  /\ gemini' = [sent EXCEPT !.status = "returned", !.result = response.text]
           ELSE /\ GEMINI_MODEL' = GEMINI_MODEL
                /\ gemini' = [sent EXCEPT !.status =
                                 IF Len(sent.requests) = Len(GEMINI_MODELS)
                                   THEN "threw" ELSE "running"]
    /\ UNCHANGED <<scoreVars, gradeVars, weekVars, envVars, routeVars, memoryVars, chatVars>>

NextGemini ==
    \/ analyzeWithGemini
    \/ \E response \in GeminiResponses : TryModel(response)

SpecGemini == InitShared /\ [][NextGemini]_vars

-----------------------------------------------------------------------------
(* The in-memory conversation store (src/src/services/memory.ts)           *)
(*                                                                         *)
(* A user_id is a string, held as the tuple of its characters. A Map is a  *)
(* function whose domain is the set of keys present. createdAt is left     *)
(* out of a turn: no function of the store reads it.                       *)

MAX_TURNS_PER_USER == 30

\* a text is held as what tells it from every other text: the user_id of the
\* request it came with, the number of the message, and whether it is the
\* message or the answer to it
MessageOf(userId, n) == [user_id |-> userId, n |-> n, kind |-> "message"]
ReplyTo(message) == [message EXCEPT !.kind = "reply"]

Min(a, b) == IF a < b THEN a ELSE b
Max(a, b) == IF a > b THEN a ELSE b

\* map.get(userId) ?? []
TurnsOf(map, userId) == IF userId \in DOMAIN map THEN map[userId] ELSE <<>>

\* Array.prototype.slice(start): a negative start counts from the end, any
\* other start (-0 is 0) from the front
slice(turns, start) ==
    LET from == IF start < 0 THEN Max(Len(turns) + start, 0) ELSE Min(start, Len(turns))
    IN  SubSeq(turns, from + 1, Len(turns))

\* flatMap of a turn to its 'user' and its 'assistant' message
RECURSIVE flatMapTurns(_)
flatMapTurns(turns) ==
    IF turns = <<>> THEN <<>>
    ELSE <<[role |-> "user", content |-> Head(turns).user],
           [role |-> "assistant", content |-> Head(turns).assistant]>>
         \o flatMapTurns(Tail(turns))

getRecentMessages(userId, maxTurns) ==
    flatMapTurns(slice(TurnsOf(memoryStore, userId), -maxTurns))

getRetrievedCount(userId, maxTurns) ==
    Min(Len(TurnsOf(memoryStore, userId)), maxTurns)

\* turns.splice(0, turns.length - MAX_TURNS_PER_USER) when the array is longer
Spliced(turns) ==
    IF Len(turns) > MAX_TURNS_PER_USER
      THEN SubSeq(turns, Len(turns) - MAX_TURNS_PER_USER + 1, Len(turns))
    ELSE turns

\* the map after map.set(userId, turns)
MapSet(map, userId, turns) ==
    [u \in DOMAIN map \cup {userId} |-> IF u = userId THEN turns ELSE map[u]]

\* saveConversation(userId, user, assistant); the turn is also appended to
\* the history of the turns saved for userId
saveConversation(userId, user, assistant) ==
    LET turn == [user |-> user, assistant |-> assistant]
    IN  /\ memoryStore' =
               MapSet(memoryStore, userId, Spliced(Append(TurnsOf(memoryStore, userId), turn)))
        /\ savedTurns' =
               MapSet(savedTurns, userId, Append(TurnsOf(savedTurns, userId), turn))

\* the users of the store on its own
StoreUsers == {<<"7">>, <<"8">>}

\* the values of maxTurns tried; 6 is the default
MaxTurnsTried == {0, 1, 6, 30, 40}

\* a caller saves the next turn of userId; what an earlier getRecentMessages
\* returned is gone by then
SaveTurn(userId) ==
    /\ Len(TurnsOf(savedTurns, userId)) < MaxSaves
    /\ saveConversation(userId,
                        MessageOf(userId, Len(TurnsOf(savedTurns, userId)) + 1),
                        ReplyTo(MessageOf(userId, Len(TurnsOf(savedTurns, userId)) + 1)))
    /\ recentMessages' = <<>>
    /\ UNCHANGED <<scoreVars, gradeVars, weekVars, envVars, routeVars, geminiVars, chatVars>>

\* a caller asks for the last maxTurns turns of userId
GetRecent(userId, maxTurns) ==
    /\ recentMessages' = <<[userId   |-> userId,
                            maxTurns |-> maxTurns,
                            messages |-> getRecentMessages(userId, maxTurns),
                            count    |-> getRetrievedCount(userId, maxTurns)]>>
    /\ UNCHANGED <<memoryStore, savedTurns, scoreVars, gradeVars, weekVars, envVars,
                   routeVars, geminiVars, chatVars>>

NextMemory ==
    \/ \E userId \in StoreUsers : SaveTurn(userId)
    \/ \E userId \in StoreUsers, maxTurns \in MaxTurnsTried : GetRecent(userId, maxTurns)

SpecMemory == InitShared /\ [][NextMemory]_vars

-----------------------------------------------------------------------------
(* handleBrainRequest (src/src/main.ts) and the Supabase functions it      *)
(* calls (src/src/services/embeddings.ts)                                  *)
(*                                                                         *)
(* The id of a user_profile row is held as the telegram_id of the row.     *)
(* A request whose model call fails throws before anything is stored and   *)
(* leaves no trace; only answered requests are steps of the model. What    *)
(* an insert into conversations does is an input: it succeeds, reports an  *)
(* error, or throws.                                                       *)

\* the user_id values of the requests
ChatUsers == {<<"7">>, <<"7", "a">>, <<"x">>}

Modes == {"chat", "embed", "analyze"}

DecimalDigits == <<"0", "1", "2", "3", "4", "5", "6", "7", "8", "9">>

IsDigit(c) == \E d \in 1..10 : DecimalDigits[d] = c

DigitValue(c) == (CHOOSE d \in 1..10 : DecimalDigits[d] = c) - 1

\* the number read from the leading digits of s, continuing from acc
RECURSIVE LeadingDigits(_, _)
LeadingDigits(s, acc) ==
    IF s = <<>> \/ ~IsDigit(Head(s)) THEN acc
    ELSE LeadingDigits(Tail(s), 10 * acc + DigitValue(Head(s)))

\* s without its leading blanks
RECURSIVE TrimStart(_)
TrimStart(s) == IF s # <<>> /\ Head(s) = " " THEN TrimStart(Tail(s)) ELSE s

\* parseInt(s, 10): blanks are skipped, a sign is read, then digits up to the
\* first character that is not one; <<n>> is the number n, <<>> is NaN (there
\* is no digit)
parseInt(s) ==
    LET t      == TrimStart(s)
        signed == t # <<>> /\ Head(t) \in {"-", "+"}
        body   == IF signed THEN Tail(t) ELSE t
    IN  IF body = <<>> \/ ~IsDigit(Head(body)) THEN <<>>
        ELSE IF signed /\ Head(t) = "-" THEN <<0 - LeadingDigits(body, 0)>>
        ELSE <<LeadingDigits(body, 0)>>

\* Number.isInteger(telegramId) && telegramId > 0 (every number of the model
\* is below Number.MAX_SAFE_INTEGER)
isValidTelegramId(telegramId) == telegramId # <<>> /\ telegramId[1] > 0

\* getUserByTelegramId: <<>> is null
getUserByTelegramId(telegramId) ==
    IF supabase /\ telegramId \in user_profile THEN <<telegramId>> ELSE <<>>

\* getRecentConversations then reverse(): the last `limit` rows of the user,
\* oldest first
getConversationHistory(userId, limit) ==
    LET rows == SelectSeq(conversations, LAMBDA row : row.user_id = userId)
        last == SubSeq(rows, Max(Len(rows) - limit, 0) + 1, Len(rows))
    IN  [i \in 1..Len(last) |-> [role |-> last[i].role, content |-> last[i].message_text]]

\* the turns getMemoryContext(userId) writes into its text
getMemoryContext(userId) == flatMapTurns(slice(TurnsOf(memoryStore, userId), -4))

\* initSupabase() at start-up with SUPABASE_URL and SUPABASE_ANON_KEY set
initSupabase ==
    /\ ~supabase
    /\ chatTurns = <<>>
    /\ supabase' = TRUE
    /\ UNCHANGED <<user_profile, conversations, chatTurns, scoreVars, gradeVars, weekVars,
                   envVars, routeVars, geminiVars, memoryVars>>

\* handleBrainRequest up to its return: the history is read, the model
\* answers, and the turn is saved in memory or its storing is left to run in
\* the background
handleBrainRequest(user_id, mode) ==
    /\ Len(chatTurns) < MaxRequests
    /\ LET telegramId   == parseInt(user_id)
           valid        == isValidTelegramId(telegramId)
           userId       == IF valid /\ mode # "embed"
                             THEN getUserByTelegramId(telegramId[1]) ELSE <<>>
           history      == IF userId = <<>> THEN <<>>
                           ELSE getConversationHistory(userId[1],
                                                       IF mode = "chat" THEN 10 ELSE 5)
           memory       == IF mode = "embed" THEN <<>>
                           ELSE IF history # <<>> THEN history
                           ELSE IF mode = "chat" THEN getRecentMessages(user_id, 6)
                           ELSE getMemoryContext(user_id)
           user_message == MessageOf(user_id, Len(chatTurns) + 1)
           response     == ReplyTo(user_message)
       IN  /\ chatTurns' =
                  Append(chatTurns,
                         [user_id        |-> user_id,
                          mode           |-> mode,
                          telegramId     |-> telegramId,
                          user_message   |-> user_message,
                          response       |-> response,
                          memoryMessages |-> memory,
                          userStore      |-> IF valid THEN "pending" ELSE "none",
                          assistantStore |-> IF valid /\ mode # "embed"
                                               THEN "pending" ELSE "none",
                          caught         |-> FALSE])
           /\ IF mode = "chat" /\ ~valid
                THEN saveConversation(user_id, user_message, response)
              ELSE UNCHANGED <<memoryStore, savedTurns>>
    /\ UNCHANGED <<recentMessages, supabase, user_profile, conversations, scoreVars,
                   gradeVars, weekVars, envVars, routeVars, geminiVars>>

\* a background store of turn i has finished with result; in chat mode the
\* first store that throws rejects the Promise.all, whose catch saves the
\* turn in memory
Settle(i, store, result) ==
    LET turn == chatTurns[i]
        fallsBack == result = "threw" /\ turn.mode = "chat" /\ ~turn.caught
    IN  /\ chatTurns' = [chatTurns EXCEPT ![i][store] = result,
                                          ![i].caught = @ \/ fallsBack]
        /\ IF fallsBack
             THEN saveConversation(turn.user_id, turn.user_message, turn.response)
           ELSE UNCHANGED <<memoryStore, savedTurns>>

\* storeUserMessage of turn i: getOrCreateUser, then the insert
storeUserMessage(i, inserted) ==
    /\ i \in 1..Len(chatTurns)
    /\ chatTurns[i].userStore = "pending"
    /\ LET turn   == chatTurns[i]
           result == IF supabase THEN inserted ELSE "false"
       IN  /\ user_profile' =
                  IF supabase THEN user_profile \cup {turn.telegramId[1]} ELSE user_profile
           /\ conversations' =
                  IF result = "true"
                    THEN Append(conversations,
                                [user_id      |-> turn.telegramId[1],
                                 role         |-> "user",
                                 message_text |-> turn.user_message])
                  ELSE conversations
           /\ Settle(i, "userStore", result)
    /\ UNCHANGED <<recentMessages, supabase, scoreVars, gradeVars, weekVars, envVars,
                   routeVars, geminiVars>>

\* storeAssistantMessage of turn i: the profile is looked up, then the insert
storeAssistantMessage(i, inserted) ==
    /\ i \in 1..Len(chatTurns)
    /\ chatTurns[i].assistantStore = "pending"
    /\ LET turn   == chatTurns[i]
           result == IF supabase /\ turn.telegramId[1] \in user_profile
                       THEN inserted ELSE "false"
       IN  /\ conversations' =
                  IF result = "true"
                    THEN Append(conversations,
                                [user_id      |-> turn.telegramId[1],
                                 role         |-> "assistant",
                                 message_text |-> turn.response])
                  ELSE conversations
           /\ Settle(i, "assistantStore", result)
    /\ UNCHANGED <<recentMessages, supabase, user_profile, scoreVars, gradeVars, weekVars,
                   envVars, routeVars, geminiVars>>

InsertOutcomes == {"true", "false", "threw"}

NextChat ==
    \/ initSupabase
    \/ \E user_id \in ChatUsers, mode \in Modes : handleBrainRequest(user_id, mode)
    \/ \E i \in 1..MaxRequests, inserted \in InsertOutcomes : storeUserMessage(i, inserted)
    \/ \E i \in 1..MaxRequests, inserted \in InsertOutcomes : storeAssistantMessage(i, inserted)

SpecChat == InitShared /\ [][NextChat]_vars

-----------------------------------------------------------------------------
(* Properties of calculateProductivityScore *)

\* every numeric field that is present is >= 0
NonNegative(m) == \A f \in NumericFields : OrZero(m[f]) >= 0

\* C1: for a record whose numeric fields are non-negative (any subset of the
\* optional fields absent) the returned score is an integer between 0 and 100.
C1_ScoreInRange ==
    (score # <<>> /\ NonNegative(metrics)) => score[1] \in 0..100

\* the lower clamp is what keeps a meeting-heavy day in range
C1_Witness ==
    /\ score = <<0>>
    /\ NonNegative(metrics)
    /\ rawScore(metrics) < 0

\* the integer k with k - 1/2 <= n/d < k + 1/2, for n >= 0 and d > 0
Nearest(n, d) ==
    CHOOSE k \in 0..(n \div d + 1) : 2 * d * k - d <= 2 * n /\ 2 * n < 2 * d * k + d

\* the documented total of the independently rounded terms
DocumentedTotal(m) ==
    LET commits  == OrZero(m.github_commits)
        prs      == OrZero(m.github_prs)
        coding   == OrZero(m.github_coding_minutes)
        exercise == OrZero(m.exercise_minutes)
        streak   == OrZero(m.workout_streak)
        focus    == OrZero(m.focus_time_minutes)
        meetings == OrZero(m.meetings_minutes)
        tenths   == OrZero(m.sleep_hours)
        steps    == OrZero(m.steps)
        screen   == OrZero(m.screen_time_minutes)
    IN  IntMin(commits, 10)
        + 2 * IntMin(prs, 5)
        + Nearest(IntMin(coding, 300), 30)
        + Nearest(IntMin(exercise, 225), 15)
        + IntMin(streak, 5)
        + (IF m.exercised_today = <<TRUE>> THEN 5 ELSE 0)
        + Nearest(IntMin(focus, 300), 20)
        + (IF m.deep_work_session = <<TRUE>> THEN 5 ELSE 0)
        - Nearest(2 * IntMax(0, meetings - 120), 60)
        + (IF 70 <= tenths /\ tenths <= 80 THEN 5
           ELSE IF 60 <= tenths /\ tenths <= 90 THEN 3
           ELSE IF tenths > 0 THEN 1 ELSE 0)
        + Nearest(IntMin(steps, 10000), 2000)
        - (IF screen > 360 THEN 10 ELSE 0)

\* C2: for a record with non-negative fields the score is the documented total
\* (each time-based term capped, then rounded half up), clamped to [0, 100] only
\* at the end.
C2_ScoreIsClampedTotal ==
    (score # <<>> /\ NonNegative(metrics)) =>
        score[1] = (IF DocumentedTotal(metrics) < 0 THEN 0
                    ELSE IF DocumentedTotal(metrics) > 100 THEN 100
                    ELSE DocumentedTotal(metrics))

\* a coding-time tie (45/30 = 1.5) and a meeting-penalty tie (2*15/60 = 0.5)
C2_Witness ==
    /\ metrics = [EmptyMetrics(Day0) EXCEPT !.github_coding_minutes = <<45>>,
                                            !.meetings_minutes = <<135>>]
    /\ score = <<1>>

\* C3: the documented scenario scores exactly 29, with contributions commits 5,
\* prs 4, coding 2, exercise 2, exercised bonus 5, focus 2, meeting penalty 0,
\* sleep 5, steps 4.
C3_ScenarioScores29 ==
    metrics = ScenarioMetrics =>
        /\ score = <<29>>
        /\ commitScore(metrics) = 5
        /\ prScore(metrics) = 4
        /\ MathRound(codingScore(metrics)) = 2
        /\ MathRound(exerciseScore(metrics)) = 2
        /\ exercisedBonus(metrics) = 5
        /\ MathRound(focusScore(metrics)) = 2
        /\ MathRound(meetingsPenalty(metrics)) = 0
        /\ sleepScore(metrics) = 5
        /\ MathRound(stepsScore(metrics)) = 4

C3_Witness == metrics = ScenarioMetrics /\ score # <<>> /\ edits = 0

\* C4: an absent field scores like 0 / false: leaving out a field whose value
\* is 0 or false does not change the score, and the record with only `date`
\* scores 0.
C4_AbsentIsNeutral ==
    score # <<>> =>
        /\ \A f \in NumericFields :
              metrics[f] = <<0>> =>
                  calculateProductivityScore([metrics EXCEPT ![f] = <<>>]) = score[1]
        /\ \A f \in BooleanFields :
              metrics[f] = <<FALSE>> =>
                  calculateProductivityScore([metrics EXCEPT ![f] = <<>>]) = score[1]
        /\ (metrics = EmptyMetrics(Day0) => score[1] = 0)

\* a scored record that carries an explicit 0 and an explicit false
C4_Witness ==
    /\ score # <<>>
    /\ metrics.sleep_hours = <<0>>
    /\ metrics.exercised_today = <<FALSE>>

\* C5: replacing a negative value of a numeric field by 0 leaves the score
\* unchanged (negative inputs are clamped to zero before scoring).
C5_NegativeScoresAsZero ==
    score # <<>> =>
        \A f \in NumericFields :
            (metrics[f] # <<>> /\ metrics[f][1] < 0) =>
                calculateProductivityScore([metrics EXCEPT ![f] = <<0>>]) = score[1]

PositiveNumericFields ==
    {"github_commits", "github_prs", "github_coding_minutes", "exercise_minutes",
     "workout_streak", "focus_time_minutes", "steps"}

\* the documented saturation point of each positive numeric field
Saturation ==
    [github_commits |-> 10, github_prs |-> 5, github_coding_minutes |-> 300,
     exercise_minutes |-> 225, workout_streak |-> 5, focus_time_minutes |-> 300,
     steps |-> 10000]

\* the step changes field f and nothing else
OnlyChanged(f) == metrics' = [metrics EXCEPT ![f] = metrics'[f]]

\* C6: with all other fields fixed the score never decreases when a positive
\* contributing field is raised (a boolean going from false to true), and it
\* does not change when a numeric field is raised from its saturation point.
C6_MonotoneAndSaturating ==
    [][ score # <<>> =>
          /\ \A f \in PositiveNumericFields :
                (OnlyChanged(f) /\ OrZero(metrics'[f]) >= OrZero(metrics[f])) =>
                    /\ score'[1] >= score[1]
                    /\ (OrZero(metrics[f]) >= Saturation[f] => score'[1] = score[1])
          /\ \A f \in BooleanFields :
                (OnlyChanged(f) /\ ~Truthy(metrics[f]) /\ Truthy(metrics'[f])) =>
                    score'[1] >= score[1]
      ]_vars

\* a saturated record scored again with more commits than the cap
C6_Witness ==
    /\ metrics = [SaturatedMetrics EXCEPT !.github_commits = <<12>>]
    /\ score = <<85>>

-----------------------------------------------------------------------------
(* Properties of getScoreGrade and getScoreDescription *)

Grades == {"A+", "A", "B", "C", "D", "F"}

\* C7: for every score in 0..100 the grade is the first match of
\* >=90 A+, >=80 A, >=70 B, >=60 C, >=50 D, else F; 100 is A+, 0 is F, 60 is C,
\* and the result is always one of the six grades.
C7_GradeBands ==
    gradedScore # <<>> =>
        LET s == gradedScore[1]
        IN  /\ grade \in Grades
            /\ (grade = "A+") <=> (90 <= s)
            /\ (grade = "A")  <=> (80 <= s /\ s < 90)
            /\ (grade = "B")  <=> (70 <= s /\ s < 80)
            /\ (grade = "C")  <=> (60 <= s /\ s < 70)
            /\ (grade = "D")  <=> (50 <= s /\ s < 60)
            /\ (grade = "F")  <=> (s < 50)
            /\ (s = 100 => grade = "A+")
            /\ (s = 0 => grade = "F")
            /\ (s = 60 => grade = "C")

C7_Witness == gradedScore = <<60>> /\ grade = "C"

\* C8 as stated: getScoreGrade(59) returns 'F'.
C8_Grade59IsF == gradedScore = <<59>> => grade = "F"

\* C8, amended: getScoreGrade(59) returns 'D' (59 >= 50 matches the D rule
\* before the F fallback; 49 is the largest score graded 'F').
C8_Grade59IsD ==
    /\ gradedScore = <<59>> => grade = "D"
    /\ gradedScore = <<49>> => grade = "F"

C8_Witness == gradedScore = <<59>> /\ grade = "D" /\ description # ""

\* C9: getScoreDescription splits 0..100 into the same six bands as
\* getScoreGrade: two scores have the same description exactly when they have
\* the same grade, every description is non-empty, and there are six of them.
C9_DescriptionBands ==
    gradedScore # <<>> =>
        /\ description # ""
        /\ \A s2 \in ScoreRange :
              (getScoreDescription(s2) = description) <=> (getScoreGrade(s2) = grade)
        /\ Cardinality({getScoreDescription(s2) : s2 \in ScoreRange}) = 6

C9_Witness ==
    /\ gradedScore = <<80>>
    /\ grade = "A"
    /\ description = "Great day! Keep it up!"

-----------------------------------------------------------------------------
(* Properties of detectPatterns *)

\* C10: on an empty sequence detectPatterns returns the neutral result:
\* avgDailyScore, consistency and workoutCorrelation 0, bestDay and worstDay
\* 'N/A', trend 'stable', no insights and no recommendations.
C10_EmptyWeekIsNeutral ==
    (patterns # <<>> /\ weeklyMetrics = <<>>) =>
        /\ patterns[1].avgDailyScore = 0
        /\ patterns[1].consistency = 0
        /\ patterns[1].workoutCorrelation = 0
        /\ patterns[1].bestDay = "N/A"
        /\ patterns[1].worstDay = "N/A"
        /\ patterns[1].trend = "stable"
        /\ patterns[1].insights = <<>>
        /\ patterns[1].recommendations = <<>>

C10_Witness == patterns # <<>> /\ Len(weeklyMetrics) = 0

-----------------------------------------------------------------------------
(* Properties of generateRecommendations *)

\* C11: whatever the week analysed, the empty one and the longest ones
\* included, the returned recommendations list has at most 5 elements
C11_AtMostFiveRecommendations ==
    patterns # <<>> => Len(patterns[1].recommendations) <= 5

\* a low-scoring first day without exercise fills the list beyond five
C11_Witness ==
    /\ patterns # <<>>
    /\ Len(weeklyMetrics) = MaxDays
    /\ calculateProductivityScore(weeklyMetrics[1]) < 50
    /\ ~Truthy(weeklyMetrics[1].exercised_today)
    /\ Len(patterns[1].recommendations) = 5

\* the five groups of the generation order, each decided from the week and
\* from the insights returned with the recommendations
GenerationOrder(w, p) ==
    LET Has(phrase) == \E k \in 1..Len(p.insights) : p.insights[k] = phrase
    IN  (IF calculateProductivityScore(w[1]) < 50
            THEN <<"Start tomorrow with exercise to boost productivity",
                   "Block focus time early in the morning">>
            ELSE <<>>)
        \o (IF w[1].exercised_today # <<TRUE>>
            THEN <<"Add a 20-minute workout to improve focus">>
            ELSE <<>>)
        \o (IF Has("High variability - productivity fluctuates significantly")
            THEN <<"Create a more consistent daily routine",
                   "Set fixed times for coding, exercise, and rest">>
            ELSE <<>>)
        \o (IF Has("Productivity declining - consider a reset")
            THEN <<"Take a rest day and plan for next week",
                   "Review what changed in your routine">>
            ELSE <<>>)
        \o <<"Aim for 7-8 hours of sleep",
             "Schedule deep work sessions (>2 hours)",
             "Limit meetings to 2 hours per day">>

\* C12: for a non-empty week the recommendations are the first 5 elements (or
\* all, if fewer) of the list in generation order: low-score pair, workout,
\* routine pair, rest/review pair, then the three baseline recommendations
C12_FirstFiveInGenerationOrder ==
    (patterns # <<>> /\ Len(weeklyMetrics) > 0) =>
        LET expected == GenerationOrder(weeklyMetrics, patterns[1])
            got      == patterns[1].recommendations
        IN  /\ Len(got) = IntMin(5, Len(expected))
            /\ \A k \in 1..Len(got) : got[k] = expected[k]

\* a week whose list holds only conditional recommendations: low first day
\* without exercise, fluctuating and declining, every baseline one dropped
C12_Witness ==
    /\ patterns # <<>>
    /\ Len(weeklyMetrics) > 0
    /\ patterns[1].recommendations =
           <<"Start tomorrow with exercise to boost productivity",
             "Block focus time early in the morning",
             "Add a 20-minute workout to improve focus",
             "Create a more consistent daily routine",
             "Set fixed times for coding, exercise, and rest">>
    /\ patterns[1].trend = "declining"

-----------------------------------------------------------------------------
(* Properties of the numbers detectPatterns returns *)

\* the per-day scores of the week w, recomputed from the records
RECURSIVE RecomputedScores(_)
RecomputedScores(w) ==
    IF w = <<>> THEN <<>>
    ELSE <<calculateProductivityScore(w[1])>> \o RecomputedScores(Tail(w))

\* the sum of the scores sc[from..to]
RECURSIVE SumBetween(_, _, _)
SumBetween(sc, from, to) ==
    IF from > to THEN 0 ELSE sc[from] + SumBetween(sc, from + 1, to)

\* the trend the half means call for: with h = floor(n/2), the difference
\* mean(second) - mean(first) is (second * h - first * (n - h)) / (h * (n - h))
TrendByHalfMeans(sc) ==
    LET n == Len(sc)
        h == n \div 2
        difference == SumBetween(sc, h + 1, n) * h - SumBetween(sc, 1, h) * (n - h)
    IN  IF n < 4 THEN "stable"
        ELSE IF difference > 10 * h * (n - h) THEN "improving"
        ELSE IF -difference > 10 * h * (n - h) THEN "declining"
        ELSE "stable"

\* C13: the trend is 'stable' for fewer than 4 days; from 4 days on it is
\* 'improving' iff mean(second half) - mean(first half) > 10, 'declining'
\* iff mean(first half) - mean(second half) > 10, and 'stable' otherwise,
\* a difference of exactly 10 included
C13_TrendByHalfMeans ==
    (patterns # <<>> /\ Len(weeklyMetrics) > 0) =>
        \E sc \in {RecomputedScores(weeklyMetrics)} :
            patterns[1].trend = TrendByHalfMeans(sc)

\* the days of w are one record repeated, the date aside
IdenticalDays(w) == \A i \in 1..Len(w) : [w[i] EXCEPT !.date = w[1].date] = w[1]

\* C14: a week of n >= 1 records identical in every scored field has
\* consistency 100 and workoutCorrelation 0, whatever the record
C14_IdenticalDays ==
    (patterns # <<>> /\ Len(weeklyMetrics) >= 1 /\ IdenticalDays(weeklyMetrics)) =>
        /\ patterns[1].consistency = 100
        /\ patterns[1].workoutCorrelation = 0

\* a full week of identical days with a positive score and a workout each
C14_Witness ==
    /\ patterns # <<>>
    /\ Len(weeklyMetrics) = MaxDays
    /\ IdenticalDays(weeklyMetrics)
    /\ calculateProductivityScore(weeklyMetrics[1]) > 0
    /\ weeklyMetrics[1].exercised_today = <<TRUE>>
    /\ patterns[1].consistency = 100

\* the days of w whose exercised_today is true (flag) or is not (~flag)
DaysWhere(w, flag) == {i \in 1..Len(w) : (w[i].exercised_today = <<TRUE>>) = flag}

\* the sum of the scores sc of a set of days
RECURSIVE ScoreTotal(_, _)
ScoreTotal(sc, set) ==
    IF set = {} THEN 0
    ELSE LET i == CHOOSE j \in set : TRUE
         IN  sc[i] + ScoreTotal(sc, set \ {i})

\* hundredths r is (mean e - mean n) / 50, clamped to [-1, 1] and rounded to
\* two decimals, for partition sums se, sn over ke, kn days: with the clamped
\* value c / d, |100 * c / d - r| <= 1/2
IsClampedRounded(r, se, ke, sn, kn) ==
    LET d == 50 * ke * kn
        c == IntMax(-d, IntMin(d, se * kn - sn * ke))
        distance == IF 100 * c >= r * d THEN 100 * c - r * d ELSE r * d - 100 * c
    IN  2 * distance <= d

\* C15: workoutCorrelation is 0 when the exercised or the non-exercised days
\* are missing; otherwise it is (mean exercised score - mean non-exercised
\* score) / 50 clamped to [-1, 1] and rounded to 2 decimals, so within
\* [-1, 1]; exercised days all 50 points above the others give 1.0
C15_WorkoutCorrelation ==
    (patterns # <<>> /\ Len(weeklyMetrics) > 0) =>
        \E sc \in {RecomputedScores(weeklyMetrics)},
           E \in {DaysWhere(weeklyMetrics, TRUE)},
           N \in {DaysWhere(weeklyMetrics, FALSE)},
           r \in {patterns[1].workoutCorrelation} :
            /\ r \in -CorrelationScale..CorrelationScale
            /\ (E = {} \/ N = {}) => r = 0
            /\ (E # {} /\ N # {}) =>
                   IsClampedRounded(r, ScoreTotal(sc, E), Cardinality(E),
                                       ScoreTotal(sc, N), Cardinality(N))
            /\ (/\ E # {} /\ N # {}
                /\ \A i \in E, j \in N : sc[i] = sc[j] + 50)
                   => r = CorrelationScale

\* a full week whose exercised days all score 50 above the others
C15_Witness ==
    /\ patterns # <<>>
    /\ Len(weeklyMetrics) = MaxDays
    /\ DaysWhere(weeklyMetrics, TRUE) # {}
    /\ DaysWhere(weeklyMetrics, FALSE) # {}
    /\ \A i \in DaysWhere(weeklyMetrics, TRUE), j \in DaysWhere(weeklyMetrics, FALSE) :
           calculateProductivityScore(weeklyMetrics[i])
               = calculateProductivityScore(weeklyMetrics[j]) + 50
    /\ patterns[1].workoutCorrelation = CorrelationScale

\* n^3 times the population variance of the scores sc: the sum over the
\* days from i on of (n * score - total)^2, total the sum of the scores
RECURSIVE SquaredDeviationsFrom(_, _, _)
SquaredDeviationsFrom(sc, total, i) ==
    IF i > Len(sc) THEN 0
    ELSE (Len(sc) * sc[i] - total) * (Len(sc) * sc[i] - total)
         + SquaredDeviationsFrom(sc, total, i + 1)

SquaredDeviations(w) ==
    CHOOSE q \in {SquaredDeviationsFrom(sc, SumBetween(sc, 1, Len(sc)), 1) :
                   sc \in {RecomputedScores(w)}} : TRUE

\* C16 as stated: the returned consistency is max(0, 100 - 2 * stddev) itself,
\* stddev the population standard deviation: 2 * stddev = 100 - consistency,
\* or consistency is 0 and 2 * stddev >= 100
C16_ConsistencyIsExact ==
    (patterns # <<>> /\ Len(weeklyMetrics) > 0) =>
        \E n \in {Len(weeklyMetrics)}, c \in {patterns[1].consistency},
           q \in {SquaredDeviations(weeklyMetrics)} :
            IF 4 * q >= 10000 * n * n * n THEN c = 0
            ELSE n * n * n * (100 - c) * (100 - c) = 4 * q

\* C16, amended: the returned consistency is max(0, 100 - 2 * stddev) rounded
\* to the nearest integer, stddev the population standard deviation
\* (divisor n): with h = 2 * (100 - consistency),
\* (h - 1) / 2 <= 2 * stddev <= (h + 1) / 2, the upper bound only above 0
C16_ConsistencyIsRounded ==
    (patterns # <<>> /\ Len(weeklyMetrics) > 0) =>
        \E n \in {Len(weeklyMetrics)}, c \in {patterns[1].consistency},
           q \in {SquaredDeviations(weeklyMetrics)} :
            /\ c \in 0..100
            /\ 2 * (100 - c) >= 1 =>
                   (2 * (100 - c) - 1) * (2 * (100 - c) - 1) * n * n * n <= 16 * q
            /\ c > 0 =>
                   16 * q <= (2 * (100 - c) + 1) * (2 * (100 - c) + 1) * n * n * n

\* a week whose consistency is not an integer before it is rounded
C16_Witness ==
    /\ patterns # <<>>
    /\ Len(weeklyMetrics) = MaxDays
    /\ patterns[1].consistency \in 1..99
    /\ LET n == Len(weeklyMetrics)
           c == patterns[1].consistency
       IN  n * n * n * (100 - c) * (100 - c) # 4 * SquaredDeviations(weeklyMetrics)

-----------------------------------------------------------------------------
(* Properties relating the insights to the returned numbers *)

\* the analysis p carries the insight `phrase`
HasInsight(p, phrase) == \E k \in 1..Len(p.insights) : p.insights[k] = phrase

\* C17: the insights agree with the returned consistency: 'Highly
\* consistent' is present iff consistency >= 80, 'High variability ...
\* fluctuates' iff consistency < 50, and neither from 50 up to 79
C17_InsightsAgreeWithConsistency ==
    (patterns # <<>> /\ Len(weeklyMetrics) > 0) =>
        /\ HasInsight(patterns[1], "Highly consistent - you maintain steady productivity")
               <=> patterns[1].consistency >= 80
        /\ HasInsight(patterns[1], "High variability - productivity fluctuates significantly")
               <=> patterns[1].consistency < 50

\* C18: the insights agree with the returned workoutCorrelation: 'Exercise
\* significantly boosts your productivity' is present iff it is above 0.3,
\* 'lower on exercise days' iff it is below -0.2
C18_InsightsAgreeWithCorrelation ==
    (patterns # <<>> /\ Len(weeklyMetrics) > 0) =>
        /\ HasInsight(patterns[1], "Exercise significantly boosts your productivity")
               <=> 10 * patterns[1].workoutCorrelation > 3 * CorrelationScale
        /\ HasInsight(patterns[1], "Productivity seems lower on exercise days - check timing")
               <=> 10 * patterns[1].workoutCorrelation < -2 * CorrelationScale

-----------------------------------------------------------------------------
(* Properties of bestDay and worstDay *)

\* the first day that attains the largest score, the last that attains the smallest
FirstMaximum(sc) ==
    CHOOSE i \in 1..Len(sc) :
        /\ \A j \in 1..Len(sc) : sc[j] <= sc[i]
        /\ \A j \in 1..(i - 1) : sc[j] < sc[i]

LastMinimum(sc) ==
    CHOOSE i \in 1..Len(sc) :
        /\ \A j \in 1..Len(sc) : sc[j] >= sc[i]
        /\ \A j \in (i + 1)..Len(sc) : sc[j] > sc[i]

\* C19: bestDay is the date of the first day in input order with the maximum
\* score and worstDay the date of the last day with the minimum score; so
\* score(bestDay) >= score(worstDay), both are the only day of a one-day
\* week, and equal-scoring days give the first and the last date
C19_BestFirstWorstLast ==
    (patterns # <<>> /\ Len(weeklyMetrics) > 0) =>
        \E sc \in {RecomputedScores(weeklyMetrics)} :
            /\ patterns[1].bestDay = weeklyMetrics[FirstMaximum(sc)].date
            /\ patterns[1].worstDay = weeklyMetrics[LastMinimum(sc)].date
            /\ \A i, j \in 1..Len(sc) :
                   (/\ weeklyMetrics[i].date = patterns[1].bestDay
                    /\ weeklyMetrics[j].date = patterns[1].worstDay) => sc[i] >= sc[j]
            /\ Len(sc) = 1 => patterns[1].bestDay = patterns[1].worstDay
            /\ (\A i \in 1..Len(sc) : sc[i] = sc[1]) =>
                   /\ patterns[1].bestDay = weeklyMetrics[1].date
                   /\ patterns[1].worstDay = weeklyMetrics[Len(sc)].date

\* a full week in which two days share the maximum and two share the minimum
C19_Witness ==
    /\ patterns # <<>>
    /\ Len(weeklyMetrics) = MaxDays
    /\ \E sc \in {RecomputedScores(weeklyMetrics)} :
           /\ \E i \in 1..Len(sc) : i > FirstMaximum(sc) /\ sc[i] = sc[FirstMaximum(sc)]
           /\ \E i \in 1..Len(sc) : i < LastMinimum(sc) /\ sc[i] = sc[LastMinimum(sc)]
           /\ sc[FirstMaximum(sc)] > sc[LastMinimum(sc)]
           /\ patterns[1].bestDay = weeklyMetrics[FirstMaximum(sc)].date

-----------------------------------------------------------------------------
(* Properties of the productivity_score field *)

\* the same days with productivity_score removed from the odd days and
\* replaced on the even days by 100, a score no record reaches
Resupplied(w) ==
    [i \in 1..Len(w) |->
        [w[i] EXCEPT !.productivity_score = IF i % 2 = 1 THEN <<>> ELSE <<100>>]]

\* C20: the supplied productivity_score never influences a result: two
\* inputs that differ only in the presence or value of productivity_score
\* on some records get identical outputs from calculateProductivityScore
\* (asked of each day as it is pushed), detectPatterns and
\* aggregateWeeklyMetrics
C20_SuppliedScoreIgnored ==
    \E t \in {Resupplied(weeklyMetrics)} :
        /\ (patterns = <<>> /\ aggregate = <<>> /\ Len(t) > 0) =>
               calculateProductivityScore(t[Len(t)])
                   = calculateProductivityScore(weeklyMetrics[Len(t)])
        /\ patterns # <<>> => detectPatterns(t) = patterns[1]
        /\ aggregate # <<>> => aggregateWeeklyMetrics(t) = aggregate[1]

\* a full analysed week of scoring days whose stored scores were all real
C20_Witness ==
    /\ patterns # <<>>
    /\ Len(weeklyMetrics) = MaxDays
    /\ patterns[1].avgDailyScore > 0
    /\ \A i \in 1..Len(weeklyMetrics) :
           /\ weeklyMetrics[i].productivity_score
                  = <<calculateProductivityScore(weeklyMetrics[i])>>
           /\ Resupplied(weeklyMetrics)[i].productivity_score
                  # weeklyMetrics[i].productivity_score

-----------------------------------------------------------------------------
(* Properties relating aggregateWeeklyMetrics to detectPatterns *)

\* r is the mean of the scores sc rounded to the nearest integer
IsRoundedMean(r, sc) ==
    \E total \in {SumBetween(sc, 1, Len(sc))} :
        /\ 2 * (Len(sc) * r - total) <= Len(sc)
        /\ 2 * (total - Len(sc) * r) <= Len(sc)

\* C21: for a non-empty week avgScore of aggregateWeeklyMetrics equals
\* avgDailyScore of detectPatterns, and both are the mean of the recomputed
\* per-day scores rounded to the nearest integer
C21_AverageAgrees ==
    Len(weeklyMetrics) > 0 =>
        /\ patterns # <<>> =>
               /\ patterns[1].avgDailyScore = aggregateWeeklyMetrics(weeklyMetrics).avgScore
               /\ IsRoundedMean(patterns[1].avgDailyScore, RecomputedScores(weeklyMetrics))
        /\ aggregate # <<>> =>
               IsRoundedMean(aggregate[1].avgScore, RecomputedScores(weeklyMetrics))

\* the totals of a full week whose mean is not an integer and is rounded up
C21_Witness ==
    /\ aggregate # <<>>
    /\ Len(weeklyMetrics) = MaxDays
    /\ \E total \in {SumBetween(RecomputedScores(weeklyMetrics), 1, MaxDays)} :
           /\ total % MaxDays # 0
           /\ aggregate[1].avgScore * MaxDays > total
    /\ aggregate[1].avgScore = detectPatterns(weeklyMetrics).avgDailyScore

-----------------------------------------------------------------------------
(* Properties of detectPatterns under reordering of the days *)

\* the records of w with the first moved to the end, and with the first two
\* exchanged: every permutation is a product of these two
Rotated(w) == IF w = <<>> THEN w ELSE Append(Tail(w), Head(w))

FirstTwoExchanged(w) ==
    IF Len(w) < 2 THEN w ELSE <<w[2], w[1]>> \o SubSeq(w, 3, Len(w))

\* the three numbers of the analysis of w
OrderFreeNumbers(w) ==
    CHOOSE t \in {<<p.avgDailyScore, p.consistency, p.workoutCorrelation>> :
                     p \in {detectPatterns(w)}} : TRUE

\* C22: avgDailyScore, consistency and workoutCorrelation do not change
\* when the records are permuted: they are the same after the rotation and
\* after the exchange of the first two records
C22_OrderFreeNumbers ==
    (patterns # <<>> /\ Len(weeklyMetrics) > 0) =>
        \E numbers \in {<<patterns[1].avgDailyScore, patterns[1].consistency,
                            patterns[1].workoutCorrelation>>} :
            /\ OrderFreeNumbers(Rotated(weeklyMetrics)) = numbers
            /\ OrderFreeNumbers(FirstTwoExchanged(weeklyMetrics)) = numbers

\* a full week that changes trend and best day when rotated, and whose three
\* numbers are none of the neutral ones
C22_Witness ==
    /\ patterns # <<>>
    /\ Len(weeklyMetrics) = MaxDays
    /\ patterns[1].consistency < 100
    /\ patterns[1].workoutCorrelation # 0
    /\ \E rotated \in {detectPatterns(Rotated(weeklyMetrics))} :
           /\ rotated.trend # patterns[1].trend
           /\ rotated.bestDay # patterns[1].bestDay
           /\ rotated.consistency = patterns[1].consistency

-----------------------------------------------------------------------------
(* Properties of the insights *)

\* the rule an insight comes from: 1 consistency, 2 workout correlation,
\* 3 trend, 4 weekday; 0 for any other text
RuleOf(insight) ==
    IF insight \in {"Highly consistent - you maintain steady productivity",
                    "High variability - productivity fluctuates significantly"} THEN 1
    ELSE IF insight \in {"Exercise significantly boosts your productivity",
                         "Productivity seems lower on exercise days - check timing"} THEN 2
    ELSE IF insight \in {"Productivity is trending upward this week",
                         "Productivity declining - consider a reset"} THEN 3
    ELSE IF \E k \in 1..Len(days) : insight = "Most productive on " \o days[k] \o "s" THEN 4
    ELSE 0

\* the sum of the scores sc of the days of w that fall on weekday k of the calendar
RECURSIVE WeekdayTotal(_, _, _, _)
WeekdayTotal(w, sc, k, i) ==
    IF i > Len(w) THEN 0
    ELSE (IF Weekdays[w[i].date] = k THEN sc[i] ELSE 0) + WeekdayTotal(w, sc, k, i + 1)

\* weekday k occurs in w and no weekday that occurs has a larger sum
IsBestWeekday(w, sc, k) ==
    /\ \E i \in 1..Len(w) : Weekdays[w[i].date] = k
    /\ \A i \in 1..Len(w) :
           WeekdayTotal(w, sc, k, 1) >= WeekdayTotal(w, sc, Weekdays[w[i].date], 1)

\* C23: for a non-empty week the insights come in the rule order consistency,
\* workout correlation, trend, weekday, at most one per rule, 1 to 4 in all;
\* the trend insight is present iff the trend is 'improving' or 'declining';
\* the weekday insight is always present, is last, and names a weekday that
\* occurs among the dates and whose sum of scores is maximal
C23_InsightsInRuleOrder ==
    (patterns # <<>> /\ Len(weeklyMetrics) > 0) =>
        \E ins \in {patterns[1].insights}, sc \in {RecomputedScores(weeklyMetrics)} :
            /\ Len(ins) \in 1..4
            /\ \A k \in 1..Len(ins) : RuleOf(ins[k]) # 0
            /\ \A k \in 1..(Len(ins) - 1) : RuleOf(ins[k]) < RuleOf(ins[k + 1])
            /\ HasInsight(patterns[1], "Productivity is trending upward this week")
                   <=> patterns[1].trend = "improving"
            /\ HasInsight(patterns[1], "Productivity declining - consider a reset")
                   <=> patterns[1].trend = "declining"
            /\ \E k \in 1..Len(days) :
                   /\ ins[Len(ins)] = "Most productive on " \o days[k] \o "s"
                   /\ IsBestWeekday(weeklyMetrics, sc, k - 1)

-----------------------------------------------------------------------------
(* Properties of the largest score *)

\* C25: no record scores more than 85, the sum of the caps of the positive
\* terms, so Math.min(100, score) never changes the total, no computed score
\* reaches 90 and none is graded 'A+'
C25_TopBandUnreachable ==
    score # <<>> =>
        /\ score[1] <= 10 + 10 + 10 + 15 + 5 + 5 + 15 + 5 + 5 + 5
        /\ rawScore(metrics) <= 100
        /\ IntMin(100, rawScore(metrics)) = rawScore(metrics)
        /\ score[1] < 90
        /\ getScoreGrade(score[1]) # "A+"

\* every positive term at its cap and the steps beyond theirs: 85, graded 'A'
C25_Witness ==
    /\ metrics = [SaturatedMetrics EXCEPT !.steps = <<12000>>]
    /\ score = <<85>>
    /\ rawScore(metrics) = 85
    /\ getScoreGrade(score[1]) = "A"

-----------------------------------------------------------------------------
(* Properties of the order of the days in GET /metrics/weekly *)

\* the position of a date in the calendar: a later date has a larger one
DayNumber(date) == CHOOSE i \in 1..Len(CalendarDates) : CalendarDates[i] = date

\* the position in w of the record with the most recent date
MostRecent(w) ==
    CHOOSE i \in 1..Len(w) :
        \A j \in 1..Len(w) : DayNumber(w[i].date) >= DayNumber(w[j].date)

HasRecommendation(p, text) ==
    \E k \in 1..Len(p.recommendations) : p.recommendations[k] = text

\* C27: in the weekly route the day that drives the recommendations,
\* dailyScores[0], is the most recent date of the window: the days reach
\* detectPatterns most recent first, and the low-score and the workout
\* recommendations are those the most recent day calls for
C27_MostRecentDayFirst ==
    (patterns # <<>> /\ Len(weeklyMetrics) > 0) =>
        \E recent \in {weeklyMetrics[MostRecent(weeklyMetrics)]} :
            /\ weeklyMetrics[1].date = recent.date
            /\ \A i \in 1..(Len(weeklyMetrics) - 1) :
                   DayNumber(weeklyMetrics[i].date) > DayNumber(weeklyMetrics[i + 1].date)
            /\ HasRecommendation(patterns[1], "Start tomorrow with exercise to boost productivity")
                   <=> calculateProductivityScore(recent) < 50
            /\ HasRecommendation(patterns[1], "Add a 20-minute workout to improve focus")
                   <=> ~Truthy(recent.exercised_today)

-----------------------------------------------------------------------------
(* Properties of the exercise fields built by GET /metrics/weekly *)

\* the number of consecutive days ending at day d that are in dates
RECURSIVE StreakEnding(_, _)
StreakEnding(dates, d) ==
    IF d \notin dates THEN 0 ELSE 1 + StreakEnding(dates, d - 1)

\* C28: for every date D of the window the record built for D has
\* exercised_today true exactly when an activity fetched for D started on D,
\* and workout_streak is the number of consecutive exercised days ending at
\* D, whatever the wall-clock day of the request
C28_ExerciseFieldsFollowTheDate ==
    \A d \in 1..Len(routeMetrics) :
        /\ routeMetrics[d].exercised_today <=> d \in stravaFetched[d]
        /\ routeMetrics[d].workout_streak = StreakEnding(stravaFetched[d], d)

-----------------------------------------------------------------------------
(* Properties of analyzeWithGemini *)

\* the answer did not yield a text: the request failed or the text is
\* missing or empty
FailedResponse(response) ==
    \/ response.status < 200
    \/ response.status > 299
    \/ response.text \in {<<>>, <<"">>}

\* C30: the models contacted by a call are the first models of GEMINI_MODELS,
\* in list order and one request each; every answer but the last one failed;
\* while the call runs the last one failed too and a model is left to try; a
\* call that returned returns the non-empty text of its last answer; a call
\* throws only when all four models have been contacted and all failed; no
\* call makes more than four requests.
C30_ModelsTriedInOrder ==
    LET n == Len(gemini.requests)
    IN  /\ n <= 4
        /\ Len(gemini.responses) = n
        /\ \A i \in 1..n : gemini.requests[i] = GEMINI_MODELS[i]
        /\ \A i \in 1..(n - 1) : FailedResponse(gemini.responses[i])
        /\ gemini.status = "running" =>
               /\ n < 4
               /\ n > 0 => FailedResponse(gemini.responses[n])
        /\ gemini.status = "returned" =>
               /\ n > 0
               /\ ~FailedResponse(gemini.responses[n])
               /\ gemini.result = gemini.responses[n].text
               /\ GEMINI_MODEL = gemini.requests[n]
        /\ gemini.status = "threw" =>
               /\ n = 4
               /\ FailedResponse(gemini.responses[n])

\* a call returned the text of the fourth model after a rejected request, a
\* missing text and an empty text
C30_Witness ==
    /\ gemini.status = "returned"
    /\ Len(gemini.requests) = 4
    /\ gemini.responses[1].status = 429
    /\ gemini.responses[2].text = <<>>
    /\ gemini.responses[3].text = <<"">>
    /\ gemini.result = <<"analysis">>

-----------------------------------------------------------------------------
(* Properties of the in-memory store *)

\* the last n elements of a sequence
LastOf(s, n) == SubSeq(s, Len(s) - n + 1, Len(s))

\* messages are the given turns, each as its 'user' and then its
\* 'assistant' message
IsPairsOf(messages, turns) ==
    /\ Len(messages) = 2 * Len(turns)
    /\ \A i \in 1..Len(turns) :
           /\ messages[2 * i - 1] = [role |-> "user", content |-> turns[i].user]
           /\ messages[2 * i] = [role |-> "assistant", content |-> turns[i].assistant]

\* what the store holds for every user is the last min(k, 30) of the k turns
\* saved for that user, in save order
StoreKeepsLastThirty ==
    \A u \in DOMAIN savedTurns \cup DOMAIN memoryStore :
        TurnsOf(memoryStore, u) =
            LastOf(TurnsOf(savedTurns, u), Min(Len(TurnsOf(savedTurns, u)), 30))

\* C29: the store holds, for every user, the last min(k, 30) of the k turns
\* saved for that user in save order, and what getRecentMessages(user, m)
\* returned is the last min(m, stored) of them, oldest first, each as its
\* 'user' and then its 'assistant' message; asking does not change the store.
C29_LastTurnsKeptAndReturned ==
    /\ StoreKeepsLastThirty
    /\ recentMessages # <<>> =>
           LET r      == recentMessages[1]
               stored == TurnsOf(memoryStore, r.userId)
           IN  IsPairsOf(r.messages, LastOf(stored, Min(r.maxTurns, Len(stored))))

-----------------------------------------------------------------------------
(* Properties of the conversation histories of handleBrainRequest *)

\* C24: the history messages handed to the model with a request for a user_id
\* (the prompt of chat mode, the memory context of analyze mode) were all
\* stored by earlier requests with that same user_id.
C24_SeparateHistories ==
    \A i \in 1..Len(chatTurns) :
        \A j \in 1..Len(chatTurns[i].memoryMessages) :
            chatTurns[i].memoryMessages[j].content.user_id = chatTurns[i].user_id

\* no background store of the turn is still running
Settled(turn) == turn.userStore # "pending" /\ turn.assistantStore # "pending"

\* the message and the reply of the turn are both rows of conversations
StoredInSupabase(turn) ==
    /\ turn.telegramId # <<>>
    /\ \E r \in 1..Len(conversations) :
           conversations[r] = [user_id      |-> turn.telegramId[1],
                               role         |-> "user",
                               message_text |-> turn.user_message]
    /\ \E r \in 1..Len(conversations) :
           conversations[r] = [user_id      |-> turn.telegramId[1],
                               role         |-> "assistant",
                               message_text |-> turn.response]

\* the turn is among the turns the in-memory store holds for its user_id
SavedInMemory(turn) ==
    \E k \in 1..Len(TurnsOf(memoryStore, turn.user_id)) :
        TurnsOf(memoryStore, turn.user_id)[k] =
            [user |-> turn.user_message, assistant |-> turn.response]

\* C26: once the background work of an answered chat-mode turn has settled,
\* its message and its reply are both stored in Supabase, or else the turn
\* has been saved in the in-memory store under its user_id.
C26_AnsweredTurnPersisted ==
    \A i \in 1..Len(chatTurns) :
        (chatTurns[i].mode = "chat" /\ Settled(chatTurns[i])) =>
            StoredInSupabase(chatTurns[i]) \/ SavedInMemory(chatTurns[i])

====
